---- MODULE Spec2Model ----
(***************************************************************************)
(* A model of the game tracker (game.rs) and the FEN reader and writer     *)
(* (fen.rs) of the chess GUI.  Bitboards are sets of squares 0..63, a      *)
(* board is a record of its position and state, strings are sequences of   *)
(* one-character strings.                                                  *)
(***************************************************************************)
EXTENDS Integers, Sequences, FiniteSets, TLC

\* ------------------------------------------------------------------------
\* Squares, colours and pieces (chess::consts)
\* ------------------------------------------------------------------------
BoardDim == 8
Squares == 0 .. (BoardDim * BoardDim - 1)
NoSq == 64

ROW(sq) == sq \div BoardDim
COL(sq) == sq % BoardDim
SQ(r, f) == r * BoardDim + f

Light == 0
Dark == 1
Both == 2

LP == 0
LN == 1
LB == 2
LR == 3
LQ == 4
LK == 5
DP == 6
DN == 7
DB == 8
DR == 9
DQ == 10
DK == 11
NoPiece == 12
Pieces == 0 .. 11

\* CastlingType as usize: the bit of the castling mask
WhiteKingside == 0
WhiteQueenside == 1
BlackKingside == 2
BlackQueenside == 3

U8Max == 255

PieceChars == <<"P", "N", "B", "R", "Q", "K", "p", "n", "b", "r", "q", "k">>
DigitChars == <<"0", "1", "2", "3", "4", "5", "6", "7", "8", "9">>
FileChars == <<"a", "b", "c", "d", "e", "f", "g", "h">>
AlphaChars ==
    {"a", "b", "c", "d", "e", "f", "g", "h", "i", "j", "k", "l", "m", "n", "o",
     "p", "q", "r", "s", "t", "u", "v", "w", "x", "y", "z",
     "A", "B", "C", "D", "E", "F", "G", "H", "I", "J", "K", "L", "M", "N", "O",
     "P", "Q", "R", "S", "T", "U", "V", "W", "X", "Y", "Z"}

is_ascii_digit(c) == \E i \in 1 .. 10 : DigitChars[i] = c
digit_value(c) == (CHOOSE i \in 1 .. 10 : DigitChars[i] = c) - 1
is_ascii_alphabetic(c) == c \in AlphaChars

\* Piece::from_char: Some(piece) for one of the twelve letters, else None
Piece_from_char(c) ==
    IF \E i \in 1 .. 12 : PieceChars[i] = c
    THEN (CHOOSE i \in 1 .. 12 : PieceChars[i] = c) - 1
    ELSE NoPiece

\* Piece::to_char
Piece_to_char(p) == PieceChars[p + 1]

\* Piece::to_tuple(opt).0: the colour of the piece, Both for None
Piece_color(p) == IF p = NoPiece THEN Both ELSE p \div 6

\* Sq::to_string: file letter then rank digit; row 0 is rank 8
Sq_to_string(sq) == <<FileChars[COL(sq) + 1], DigitChars[(BoardDim - ROW(sq)) + 1]>>

\* Sq::from_str
Sq_from_str(s) ==
    IF /\ Len(s) = 2
       /\ \E i \in 1 .. 8 : FileChars[i] = s[1]
       /\ is_ascii_digit(s[2])
       /\ digit_value(s[2]) \in 1 .. 8
    THEN SQ(BoardDim - digit_value(s[2]), (CHOOSE i \in 1 .. 8 : FileChars[i] = s[1]) - 1)
    ELSE NoSq

\* ------------------------------------------------------------------------
\* Bitboards and boards (chess::bb, chess::board)
\* ------------------------------------------------------------------------
count_ones(bb) == Cardinality(bb)
lsb(bb) == CHOOSE s \in bb : \A t \in bb : s <= t

EmptyPieces == [p \in Pieces |-> {}]

Union12(piece, ps) == UNION {piece[p] : p \in ps}

\* Position::update_units
update_units(piece) ==
    [c \in 0 .. 2 |->
        IF c = Light THEN Union12(piece, 0 .. 5)
        ELSE IF c = Dark THEN Union12(piece, 6 .. 11)
        ELSE Union12(piece, Pieces)]

\* Board::find_piece: the piece standing on sq, None when empty
find_piece(b, sq) ==
    IF \E p \in Pieces : sq \in b.piece[p]
    THEN CHOOSE p \in Pieces : sq \in b.piece[p] /\ \A q \in Pieces : sq \in b.piece[q] => p <= q
    ELSE NoPiece

\* zobrist::gen_board_key / gen_board_lock: a function of the piece
\* placement, the castling rights, the en passant file and the side to move
EpFile(ep) == IF ep = NoSq THEN NoSq ELSE COL(ep)
gen_board_key(b) == <<"key", b.piece, b.castling, EpFile(b.enpassant), b.side>>
gen_board_lock(b) == <<"lock", b.piece, b.castling, EpFile(b.enpassant), b.side>>

\* Board::new
Board_new ==
    [piece |-> EmptyPieces, units |-> update_units(EmptyPieces),
     side |-> Light, xside |-> Dark, castling |-> {}, enpassant |-> NoSq,
     half_moves |-> 0, full_moves |-> 0,
     key |-> <<>>, lock |-> <<>>]

\* ------------------------------------------------------------------------
\* Text helpers (the Rust standard library calls fen.rs makes)
\* ------------------------------------------------------------------------
is_whitespace(c) == c = " "

\* str::split_ascii_whitespace: the non-empty runs between whitespace
field_starts(s) ==
    {i \in 1 .. Len(s) : ~is_whitespace(s[i]) /\ (i = 1 \/ is_whitespace(s[i - 1]))}

field_end(s, a) ==
    CHOOSE e \in a .. Len(s) :
        /\ \A j \in a .. e : ~is_whitespace(s[j])
        /\ (e = Len(s) \/ is_whitespace(s[e + 1]))

split_ascii_whitespace(s) ==
    LET starts == field_starts(s)
        nth(k) == CHOOSE a \in starts : Cardinality({x \in starts : x < a}) = k - 1
    IN  [k \in 1 .. Cardinality(starts) |-> SubSeq(s, nth(k), field_end(s, nth(k)))]

\* format!("{}", n) of an unsigned number
RECURSIVE format_u32(_)
format_u32(n) ==
    IF n < 10 THEN <<DigitChars[n + 1]>>
    ELSE Append(format_u32(n \div 10), DigitChars[(n % 10) + 1])

ParseErr == -1

RECURSIVE digits_value(_, _, _)
digits_value(s, i, acc) ==
    IF i > Len(s) THEN acc
    ELSE digits_value(s, i + 1, acc * 10 + digit_value(s[i]))

RECURSIVE strip_zeros(_)
strip_zeros(s) == IF Len(s) > 1 /\ s[1] = "0" THEN strip_zeros(Tail(s)) ELSE s

\* Whether the digit string a names a larger number than b, of equal length
RECURSIVE digits_greater(_, _, _)
digits_greater(a, b, i) ==
    IF i > Len(a) THEN FALSE
    ELSE IF digit_value(a[i]) # digit_value(b[i]) THEN digit_value(a[i]) > digit_value(b[i])
    ELSE digits_greater(a, b, i + 1)

\* u32::MAX, 4294967295, as its digits
U32MaxDigits == <<"4", "2", "9", "4", "9", "6", "7", "2", "9", "5">>

overflows_u32(digits) ==
    LET d == strip_zeros(digits)
    IN  \/ Len(d) > Len(U32MaxDigits)
        \/ Len(d) = Len(U32MaxDigits) /\ digits_greater(d, U32MaxDigits, 1)

\* str::parse::<u32>: an optional '+' and at least one digit, no overflow
parse_u32(s) ==
    LET body == IF Len(s) > 0 /\ s[1] = "+" THEN Tail(s) ELSE s
    IN  IF body = <<>> \/ (\E i \in 1 .. Len(body) : ~is_ascii_digit(body[i])) THEN ParseErr
        ELSE IF overflows_u32(body) THEN ParseErr
        ELSE digits_value(body, 1, 0)

\* ------------------------------------------------------------------------
\* fen.rs
\* ------------------------------------------------------------------------
\* What a call of parse ends in: a Board, or a panic (it has no error result)
Panicked == [outcome |-> "panic"]

\* BBUtil::set on bit sq of a piece bitboard.  A shift by 64 or more
\* panics when overflow checks are on and wraps to sq % 64 when they are off.
set_bit(piece, p, sq) == [piece EXCEPT ![p] = @ \cup {sq % 64}]

\* parse_pieces, one character: sq is the square counter (u8), piece the
\* bitboards; '/' and unknown characters change nothing
parse_piece_char(st, c, checks) ==
    IF c = "/" THEN st
    ELSE IF is_ascii_digit(c)
    THEN LET nsq == st.sq + digit_value(c) IN
         IF nsq > U8Max /\ checks THEN [st EXCEPT !.panic = TRUE]
         ELSE [st EXCEPT !.sq = nsq % (U8Max + 1)]
    ELSE IF is_ascii_alphabetic(c)
    THEN LET p == Piece_from_char(c) IN
         IF Piece_color(p) = Both THEN st
         ELSE IF (st.sq >= 64 \/ st.sq + 1 > U8Max) /\ checks THEN [st EXCEPT !.panic = TRUE]
         ELSE [st EXCEPT !.piece = set_bit(@, p, st.sq), !.sq = (st.sq + 1) % (U8Max + 1)]
    ELSE st

RECURSIVE parse_pieces_from(_, _, _, _)
parse_pieces_from(s, i, st, checks) ==
    IF st.panic \/ i > Len(s) THEN st
    ELSE parse_pieces_from(s, i + 1, parse_piece_char(st, s[i], checks), checks)

\* parse_pieces: walk the placement field from square 0
parse_pieces(fen_piece, piece, checks) ==
    parse_pieces_from(fen_piece, 1, [sq |-> 0, piece |-> piece, panic |-> FALSE], checks)

\* State::toggle_castling
toggle_castling(castling, bit) ==
    IF bit \in castling THEN castling \ {bit} ELSE castling \cup {bit}

RECURSIVE parse_castling(_, _, _)
parse_castling(s, i, castling) ==
    IF i > Len(s) THEN castling
    ELSE parse_castling(s, i + 1,
            IF s[i] = "K" THEN toggle_castling(castling, WhiteKingside)
            ELSE IF s[i] = "Q" THEN toggle_castling(castling, WhiteQueenside)
            ELSE IF s[i] = "k" THEN toggle_castling(castling, BlackKingside)
            ELSE IF s[i] = "q" THEN toggle_castling(castling, BlackQueenside)
            ELSE castling)

\* parse: every fen_parts.next().unwrap() and parse::<u32>().unwrap() panics
\* on a missing or non-numeric field; there is no error result.
parse(fen, checks) ==
    LET fen_parts == split_ascii_whitespace(fen) IN
    IF Len(fen_parts) < 1 THEN Panicked
    ELSE LET pp == parse_pieces(fen_parts[1], EmptyPieces, checks) IN
    IF pp.panic THEN Panicked
    ELSE IF Len(fen_parts) < 5 THEN Panicked
    ELSE LET half_moves == parse_u32(fen_parts[5]) IN
    IF half_moves = ParseErr THEN Panicked
    ELSE IF Len(fen_parts) < 6 THEN Panicked
    ELSE LET full_moves == parse_u32(fen_parts[6]) IN
    IF full_moves = ParseErr THEN Panicked
    ELSE LET side_to_move_str == fen_parts[2]
             b0 == Board_new
             b1 == [b0 EXCEPT
                      !.piece = pp.piece,
                      !.side = IF side_to_move_str = <<"w">> THEN Light
                               ELSE IF side_to_move_str = <<"b">> THEN Dark ELSE @,
                      !.xside = IF side_to_move_str = <<"w">> THEN Dark
                                ELSE IF side_to_move_str = <<"b">> THEN Light ELSE @,
                      !.castling = parse_castling(fen_parts[3], 1, @),
                      !.enpassant = IF fen_parts[4] # <<"-">>
                                    THEN Sq_from_str(fen_parts[4]) ELSE @,
                      !.half_moves = half_moves,
                      !.full_moves = full_moves,
                      !.units = update_units(pp.piece)]
         IN  [outcome |-> "board",
              board |-> [b1 EXCEPT !.key = gen_board_key(b1), !.lock = gen_board_lock(b1)]]

\* gen_fen's rank loop without the reset of empty_sqs after a piece
RECURSIVE gen_fen_rank_keeps_run(_, _, _, _, _)
gen_fen_rank_keeps_run(b, r, f, empty_sqs, output) ==
    IF f = BoardDim
    THEN IF empty_sqs # 0 THEN Append(output, DigitChars[empty_sqs + 1]) ELSE output
    ELSE LET piece == find_piece(b, SQ(r, f)) IN
         IF piece # NoPiece
         THEN gen_fen_rank_keeps_run(b, r, f + 1, empty_sqs,
                  Append(IF empty_sqs # 0 THEN Append(output, DigitChars[empty_sqs + 1])
                         ELSE output,
                         Piece_to_char(piece)))
         ELSE gen_fen_rank_keeps_run(b, r, f + 1, empty_sqs + 1, output)

\* gen_fen, one rank appended to output: squares SQ(r, 0) .. SQ(r, 7), a run
\* of empty squares written as its length
RECURSIVE gen_fen_rank(_, _, _, _, _)
gen_fen_rank(b, r, f, empty_sqs, output) ==
    IF f = BoardDim
    THEN IF empty_sqs # 0 THEN Append(output, DigitChars[empty_sqs + 1]) ELSE output
    ELSE LET piece == find_piece(b, SQ(r, f)) IN
         IF piece # NoPiece
         THEN gen_fen_rank(b, r, f + 1, 0,
                  Append(IF empty_sqs # 0 THEN Append(output, DigitChars[empty_sqs + 1])
                         ELSE output,
                         Piece_to_char(piece)))
         ELSE gen_fen_rank(b, r, f + 1, empty_sqs + 1, output)

RECURSIVE gen_fen_pieces(_, _)
gen_fen_pieces(b, r) ==
    IF r = BoardDim THEN <<>>
    ELSE gen_fen_rank(b, r, 0, 0, <<>>)
         \o (IF r # BoardDim - 1 THEN <<"/">> ELSE <<>>)
         \o gen_fen_pieces(b, r + 1)

gen_fen_castling(castling) ==
    IF castling # {}
    THEN (IF WhiteKingside \in castling THEN <<"K">> ELSE <<>>)
         \o (IF WhiteQueenside \in castling THEN <<"Q">> ELSE <<>>)
         \o (IF BlackKingside \in castling THEN <<"k">> ELSE <<>>)
         \o (IF BlackQueenside \in castling THEN <<"q">> ELSE <<>>)
    ELSE <<"-">>

gen_fen(b) ==
    gen_fen_pieces(b, 0)
    \o <<" ">>
    \o (IF b.side = Light THEN <<"w">> ELSE <<"b">>)
    \o <<" ">>
    \o gen_fen_castling(b.castling)
    \o <<" ">>
    \o (IF b.enpassant # NoSq THEN Sq_to_string(b.enpassant) ELSE <<"-">>)
    \o <<" ">> \o format_u32(b.half_moves)
    \o <<" ">> \o format_u32(b.full_moves)

\* Board::from_fen
Board_from_fen(fen, checks) == parse(fen, checks)

\* ------------------------------------------------------------------------
\* Attacks (chess::attack)
\* ------------------------------------------------------------------------
OnBoard(r, c) == r \in 0 .. BoardDim - 1 /\ c \in 0 .. BoardDim - 1

Leap(sq, offsets) ==
    {SQ(ROW(sq) + o[1], COL(sq) + o[2]) : o \in {x \in offsets : OnBoard(ROW(sq) + x[1], COL(sq) + x[2])}}

KnightOffsets == {<<-2, -1>>, <<-2, 1>>, <<-1, -2>>, <<-1, 2>>, <<1, -2>>, <<1, 2>>, <<2, -1>>, <<2, 1>>}
KingOffsets == {<<-1, -1>>, <<-1, 0>>, <<-1, 1>>, <<0, -1>>, <<0, 1>>, <<1, -1>>, <<1, 0>>, <<1, 1>>}
BishopDirs == {<<-1, -1>>, <<-1, 1>>, <<1, -1>>, <<1, 1>>}
RookDirs == {<<-1, 0>>, <<1, 0>>, <<0, -1>>, <<0, 1>>}

\* White pawns advance towards row 0, black pawns towards row 7
Forward(color) == IF color = Light THEN -1 ELSE 1

knight_attack(sq) == Leap(sq, KnightOffsets)
king_attack(sq) == Leap(sq, KingOffsets)
pawn_attack(color, sq) == Leap(sq, {<<Forward(color), -1>>, <<Forward(color), 1>>})

\* One ray from (r, c) in direction d, up to and including the first blocker
RECURSIVE ray(_, _, _, _)
ray(r, c, d, occ) ==
    LET nr == r + d[1]
        nc == c + d[2]
    IN  IF ~OnBoard(nr, nc) THEN {}
        ELSE IF SQ(nr, nc) \in occ THEN {SQ(nr, nc)}
        ELSE {SQ(nr, nc)} \cup ray(nr, nc, d, occ)

slide(sq, dirs, occ) == UNION {ray(ROW(sq), COL(sq), d, occ) : d \in dirs}
get_bishop_attack(sq, occ) == slide(sq, BishopDirs, occ)
get_rook_attack(sq, occ) == slide(sq, RookDirs, occ)
get_queen_attack(sq, occ) == get_bishop_attack(sq, occ) \cup get_rook_attack(sq, occ)

PieceOf(color, kind) == color * 6 + kind
Other(color) == 1 - color

\* Whether sq is attacked by a piece of colour side
sq_attacked(piece, units, sq, side) ==
    \/ pawn_attack(Other(side), sq) \cap piece[PieceOf(side, LP)] # {}
    \/ knight_attack(sq) \cap piece[PieceOf(side, LN)] # {}
    \/ king_attack(sq) \cap piece[PieceOf(side, LK)] # {}
    \/ get_bishop_attack(sq, units[Both])
         \cap (piece[PieceOf(side, LB)] \cup piece[PieceOf(side, LQ)]) # {}
    \/ get_rook_attack(sq, units[Both])
         \cap (piece[PieceOf(side, LR)] \cup piece[PieceOf(side, LQ)]) # {}

\* Board::is_in_check(checker_side): the king of the other colour is
\* attacked by checker_side
is_in_check(b, checker_side) ==
    LET king == b.piece[PieceOf(Other(checker_side), LK)]
    IN  king # {} /\ sq_attacked(b.piece, b.units, lsb(king), checker_side)

\* Board::is_white_to_move
is_white_to_move(b) == b.side = Light

\* ------------------------------------------------------------------------
\* Moves (chess::moves, chess::move_gen)
\* ------------------------------------------------------------------------
Move(source, target, piece, promoted, capture, twosquare, enpassant, castling) ==
    [source |-> source, target |-> target, piece |-> piece, promoted |-> promoted,
     capture |-> capture, twosquare |-> twosquare, enpassant |-> enpassant,
     castling |-> castling]

Quiet(source, target, piece, capture) ==
    Move(source, target, piece, NoPiece, capture, FALSE, FALSE, FALSE)

PromotionRow(color) == IF color = Light THEN 0 ELSE BoardDim - 1
PawnStartRow(color) == IF color = Light THEN BoardDim - 2 ELSE 1
PromotionKinds == {LN, LB, LR, LQ}

\* A pawn arriving on target: one move, or one per promotion piece
PawnArrive(color, source, target, capture) ==
    IF ROW(target) = PromotionRow(color)
    THEN {Move(source, target, PieceOf(color, LP), PieceOf(color, k), capture, FALSE, FALSE, FALSE)
            : k \in PromotionKinds}
    ELSE {Quiet(source, target, PieceOf(color, LP), capture)}

generate_pawns(b, color) ==
    UNION {
        LET r == ROW(s)
            c == COL(s)
            one == SQ(r + Forward(color), c)
            two == SQ(r + 2 * Forward(color), c)
            occ == b.units[Both]
        IN  (IF OnBoard(r + Forward(color), c) /\ one \notin occ
             THEN PawnArrive(color, s, one, FALSE)
                  \cup (IF r = PawnStartRow(color) /\ two \notin occ
                        THEN {Move(s, two, PieceOf(color, LP), NoPiece, FALSE, TRUE, FALSE, FALSE)}
                        ELSE {})
             ELSE {})
            \cup UNION {PawnArrive(color, s, t, TRUE)
                          : t \in pawn_attack(color, s) \cap b.units[Other(color)]}
            \cup (IF b.enpassant # NoSq /\ b.enpassant \in pawn_attack(color, s)
                  THEN {Move(s, b.enpassant, PieceOf(color, LP), NoPiece, FALSE, FALSE, TRUE, FALSE)}
                  ELSE {})
        : s \in b.piece[PieceOf(color, LP)]}

PieceTargets(b, kind, s) ==
    IF kind = LN THEN knight_attack(s)
    ELSE IF kind = LK THEN king_attack(s)
    ELSE IF kind = LB THEN get_bishop_attack(s, b.units[Both])
    ELSE IF kind = LR THEN get_rook_attack(s, b.units[Both])
    ELSE get_queen_attack(s, b.units[Both])

generate_pieces(b, color, kind) ==
    UNION {{Quiet(s, t, PieceOf(color, kind), t \in b.units[Other(color)])
              : t \in PieceTargets(b, kind, s) \ b.units[color]}
           : s \in b.piece[PieceOf(color, kind)]}

\* Castling: the right is held, the squares between king and rook are empty,
\* and the king's square and the squares it crosses are not attacked
KingHome(color) == SQ(IF color = Light THEN BoardDim - 1 ELSE 0, 4)
KingsideBit(color) == IF color = Light THEN WhiteKingside ELSE BlackKingside
QueensideBit(color) == IF color = Light THEN WhiteQueenside ELSE BlackQueenside

generate_castling(b, color) ==
    LET e == KingHome(color)
        free(sqs) == sqs \cap b.units[Both] = {}
        safe(sqs) == \A q \in sqs : ~sq_attacked(b.piece, b.units, q, Other(color))
    IN  IF e \notin b.piece[PieceOf(color, LK)] THEN {}
        ELSE (IF /\ KingsideBit(color) \in b.castling
                 /\ free({e + 1, e + 2})
                 /\ safe({e, e + 1, e + 2})
              THEN {Move(e, e + 2, PieceOf(color, LK), NoPiece, FALSE, FALSE, FALSE, TRUE)}
              ELSE {})
             \cup
             (IF /\ QueensideBit(color) \in b.castling
                 /\ free({e - 1, e - 2, e - 3})
                 /\ safe({e, e - 1, e - 2})
              THEN {Move(e, e - 2, PieceOf(color, LK), NoPiece, FALSE, FALSE, FALSE, TRUE)}
              ELSE {})

\* move_gen::generate_by_piece
generate_by_piece(b, p) ==
    LET color == p \div 6
        kind == p % 6
    IN  IF kind = LP THEN generate_pawns(b, color)
        ELSE IF kind = LK THEN generate_pieces(b, color, LK) \cup generate_castling(b, color)
        ELSE generate_pieces(b, color, kind)

\* move_gen::generate_all: the pseudo-legal moves of the side to move
generate_all(b) ==
    UNION {generate_by_piece(b, PieceOf(b.side, kind)) : kind \in 0 .. 5}

\* The castling rights a move from or to sq takes away
RightsLost(sq) ==
    IF sq = KingHome(Light) THEN {WhiteKingside, WhiteQueenside}
    ELSE IF sq = KingHome(Light) + 3 THEN {WhiteKingside}
    ELSE IF sq = KingHome(Light) - 4 THEN {WhiteQueenside}
    ELSE IF sq = KingHome(Dark) THEN {BlackKingside, BlackQueenside}
    ELSE IF sq = KingHome(Dark) + 3 THEN {BlackKingside}
    ELSE IF sq = KingHome(Dark) - 4 THEN {BlackQueenside}
    ELSE {}

\* moves::make with MoveFlag::AllMoves: the board after mv and whether the
\* mover's king is safe on it (false: the caller discards the board)
make(b, mv) ==
    LET us == b.side
        them == b.xside
        landed == IF mv.promoted # NoPiece THEN mv.promoted ELSE mv.piece
        victim == IF mv.enpassant THEN mv.target - BoardDim * Forward(us) ELSE mv.target
        p1 == [p \in Pieces |->
                 IF Piece_color(p) = them /\ (mv.capture \/ mv.enpassant)
                 THEN b.piece[p] \ {victim}
                 ELSE b.piece[p]]
        p2 == [p1 EXCEPT ![mv.piece] = @ \ {mv.source}]
        p3 == [p2 EXCEPT ![landed] = @ \cup {mv.target}]
        rook == PieceOf(us, LR)
        p4 == IF ~mv.castling THEN p3
              ELSE IF mv.target > mv.source
                   THEN [p3 EXCEPT ![rook] = (@ \ {mv.source + 3}) \cup {mv.source + 1}]
                   ELSE [p3 EXCEPT ![rook] = (@ \ {mv.source - 4}) \cup {mv.source - 1}]
        pawn_move == mv.piece % 6 = LP
        b1 == [b EXCEPT
                 !.piece = p4,
                 !.units = update_units(p4),
                 !.castling = (@ \ RightsLost(mv.source)) \ RightsLost(mv.target),
                 !.enpassant = IF mv.twosquare THEN mv.source + BoardDim * Forward(us) ELSE NoSq,
                 !.half_moves = IF pawn_move \/ mv.capture THEN 0 ELSE @ + 1,
                 !.full_moves = IF us = Dark THEN @ + 1 ELSE @,
                 !.side = them,
                 !.xside = us]
        b2 == [b1 EXCEPT !.key = gen_board_key(b1), !.lock = gen_board_lock(b1)]
    IN  [ok |-> ~is_in_check(b2, b2.side), board |-> b2]

\* ------------------------------------------------------------------------
\* game.rs
\* ------------------------------------------------------------------------
Ongoing == "Ongoing"
LightWinByCheckmate == "LightWinByCheckmate"
DarkWinByCheckmate == "DarkWinByCheckmate"
LightLostOnTime == "LightLostOnTime"
DarkLostOnTime == "DarkLostOnTime"
DrawByStalemate == "DrawByStalemate"
DrawByFiftyMoveRule == "DrawByFiftyMoveRule"
DrawByThreefoldRepetition == "DrawByThreefoldRepetition"
DrawByInsufficientMaterial == "DrawByInsufficientMaterial"

FiftyMoveLimit == 100
RepetitionLimit == 3

\* The bishops compared by their files alone
same_colored_bishops_by_file(b) ==
    LET white_bishop == lsb(b.piece[2])
        black_bishop == lsb(b.piece[8])
    IN  COL(white_bishop) % 2 = COL(black_bishop) % 2

\* The two bishops stand on squares of the same colour
same_colored_bishops(b) ==
    LET white_bishop == lsb(b.piece[2])
        black_bishop == lsb(b.piece[8])
    IN  (ROW(white_bishop) + COL(white_bishop)) % 2
          = (ROW(black_bishop) + COL(black_bishop)) % 2

insufficient_material(b) ==
    IF count_ones(b.units[0]) = 1 /\ count_ones(b.units[1]) = 1
    THEN TRUE   \* K vs k
    ELSE IF \/ (count_ones(b.units[0]) = 2 /\ count_ones(b.piece[1]) = 1 /\ count_ones(b.units[1]) = 1)
            \/ (count_ones(b.units[1]) = 2 /\ count_ones(b.piece[7]) = 1 /\ count_ones(b.units[0]) = 1)
    THEN TRUE   \* (KN vs k) and (K vs kn)
    ELSE IF \/ (count_ones(b.units[0]) = 2 /\ count_ones(b.piece[2]) = 1 /\ count_ones(b.units[1]) = 1)
            \/ (count_ones(b.units[1]) = 2 /\ count_ones(b.piece[8]) = 1 /\ count_ones(b.units[0]) = 1)
    THEN TRUE   \* (KB vs k) and (K vs kb)
    ELSE IF /\ count_ones(b.units[0]) = 2 /\ count_ones(b.piece[1]) = 1
            /\ count_ones(b.units[1]) = 2 /\ count_ones(b.piece[7]) = 1
    THEN TRUE   \* KN vs kn
    ELSE IF /\ count_ones(b.units[0]) = 2 /\ count_ones(b.piece[2]) = 1
            /\ count_ones(b.units[1]) = 2 /\ count_ones(b.piece[8]) = 1
    THEN same_colored_bishops(b)   \* KB vs kb
    ELSE FALSE

\* MoveList: the generated moves in the order they were added
RECURSIVE MoveList(_)
MoveList(S) ==
    IF S = {} THEN <<>>
    ELSE LET m == CHOOSE x \in S : TRUE IN <<m>> \o MoveList(S \ {m})

\* Vec::remove(i), i counted from 1
remove(ml, i) == SubSeq(ml, 1, i - 1) \o SubSeq(ml, i + 1, Len(ml))

\* The working board put back only after an illegal trial
restore_board_if_illegal(clone, made) == IF made.ok THEN made.board ELSE clone

\* set_state, *board = clone: the working board after a trial
restore_board(clone, made) == clone

\* set_state, the loop over the move list from its end: moves::make moves on
\* the working board; trials records the board each trial started from
RECURSIVE legality_filter(_, _, _, _)
legality_filter(board, ml, i, trials) ==
    \* (the tests on the lengths make TLC evaluate the arguments at every step)
    IF i = 0 \/ Len(ml) < i \/ Len(trials) < 0 \/ board.side = Both
    THEN [board |-> board, moves |-> ml, trials |-> trials]
    ELSE LET clone == board
             made == make(board, ml[i])
         IN  legality_filter(restore_board(clone, made),
                             IF ~made.ok THEN remove(ml, i) ELSE ml,
                             i - 1,
                             Append(trials, [mv |-> ml[i], board |-> board, ok |-> made.ok]))

\* set_state, the legality filter run on a clone of current
run_legality_filter(current) ==
    LET ml == MoveList(generate_all(current))
    IN  legality_filter(current, ml, Len(ml), <<>>)

\* The legality filter of set_state: the moves left in the move list
legal_moves(board) ==
    LET left == run_legality_filter(board).moves
    IN  {left[i] : i \in 1 .. Len(left)}

\* The fifty-move check with the boundary one ply late
fifty_move_reached_late(current) == current.half_moves > FiftyMoveLimit

\* set_state, the fifty-move check
fifty_move_reached(current) == current.half_moves >= FiftyMoveLimit

\* The checkmate winner taken from the side to move instead of xside
no_moves_state_swapped(board) ==
    IF is_in_check(board, board.xside)
    THEN IF board.side = Light THEN LightWinByCheckmate ELSE DarkWinByCheckmate
    ELSE DrawByStalemate

\* set_state, no legal move left: checkmate by xside, the side that moved, or stalemate
no_moves_state(board) ==
    IF is_in_check(board, board.xside)
    THEN IF board.xside = Light THEN LightWinByCheckmate ELSE DarkWinByCheckmate
    ELSE DrawByStalemate

\* The loop over the history: the matching boards counted when it stops
RECURSIVE repetition_count(_, _, _, _)
repetition_count(boards, i, curr, count) ==
    IF i > Len(boards) \/ count = RepetitionLimit THEN count
    ELSE repetition_count(boards, i + 1, curr,
            IF curr.key = boards[i].key /\ curr.lock = boards[i].lock
            THEN count + 1 ELSE count)

\* set_state with the material check ahead of the fifty-move check
set_state_material_first(current, boards) ==
    IF insufficient_material(current) THEN DrawByInsufficientMaterial
    ELSE IF fifty_move_reached(current) THEN DrawByFiftyMoveRule
    ELSE IF legal_moves(current) = {} THEN no_moves_state(current)
    ELSE IF repetition_count(boards, 1, current, 0) = RepetitionLimit
    THEN DrawByThreefoldRepetition
    ELSE Ongoing

\* Game::set_state: current is the board just reached, boards the history before it
set_state(current, boards) ==
    IF fifty_move_reached(current) THEN DrawByFiftyMoveRule
    ELSE IF insufficient_material(current) THEN DrawByInsufficientMaterial
    ELSE IF legal_moves(current) = {} THEN no_moves_state(current)
    ELSE IF repetition_count(boards, 1, current, 0) = RepetitionLimit
    THEN DrawByThreefoldRepetition
    ELSE Ongoing

\* Game::from_fen (the board is Board::from_fen's; a panic there ends the program)
Game_from_fen(white_name, black_name, fen, checks) ==
    [start_fen |-> fen,
     state |-> Ongoing,
     boards |-> <<Board_from_fen(fen, checks).board>>,
     moves |-> <<>>,
     white_name |-> white_name,
     black_name |-> black_name]

\* make_move recording the move before moves::make has accepted it
make_move_records_first(g, mv) ==
    IF g.boards = <<>> THEN [game |-> g, ret |-> FALSE]
    ELSE LET current == g.boards[Len(g.boards)]
             made == make(current, mv)
             next_board == made.board
         IN  IF made.ok
             THEN [game |-> [g EXCEPT !.moves = Append(@, mv),
                                      !.state = set_state(next_board, g.boards),
                                      !.boards = Append(@, next_board)],
                   ret |-> TRUE]
             ELSE [game |-> [g EXCEPT !.moves = Append(@, mv)], ret |-> FALSE]

\* make_move pushing the board it cloned instead of the board moved on
make_move_pushes_clone(g, mv) ==
    IF g.boards = <<>> THEN [game |-> g, ret |-> FALSE]
    ELSE LET current == g.boards[Len(g.boards)]
             made == make(current, mv)
             next_board == made.board
         IN  IF made.ok
             THEN [game |-> [g EXCEPT !.moves = Append(@, mv),
                                      !.state = set_state(next_board, g.boards),
                                      !.boards = Append(@, current)],
                   ret |-> TRUE]
             ELSE [game |-> g, ret |-> FALSE]

\* make_move moving on the last board itself instead of a clone of it
make_move_in_place(g, mv) ==
    IF g.boards = <<>> THEN [game |-> g, ret |-> FALSE]
    ELSE LET current == g.boards[Len(g.boards)]
             made == make(current, mv)
             next_board == made.board
             moved == [g.boards EXCEPT ![Len(g.boards)] = next_board]
         IN  IF made.ok
             THEN [game |-> [g EXCEPT !.moves = Append(@, mv),
                                      !.state = set_state(next_board, g.boards),
                                      !.boards = Append(moved, next_board)],
                   ret |-> TRUE]
             ELSE [game |-> [g EXCEPT !.boards = moved], ret |-> FALSE]

\* Game::make_move: the game afterwards and the boolean returned
make_move(g, mv) ==
    IF g.boards = <<>> THEN [game |-> g, ret |-> FALSE]
    ELSE LET current == g.boards[Len(g.boards)]
             made == make(current, mv)
             next_board == made.board
         IN  IF made.ok
             THEN [game |-> [g EXCEPT !.moves = Append(@, mv),
                                      !.state = set_state(next_board, g.boards),
                                      !.boards = Append(@, next_board)],
                   ret |-> TRUE]
             ELSE [game |-> g, ret |-> FALSE]

\* ------------------------------------------------------------------------
\* The games played: start positions, and the squares the players use
\* ------------------------------------------------------------------------
MaxPlies == 12
MaxShortPlies == 3

Scenarios ==
    <<[fen |-> <<"k", "7", "/", "8", "/", "8", "/", "8", "/", "8", "/", "8", "/", "8", "/", "K", "6", "R", " ", "w", " ", "-", " ", "-", " ", "0", " ", "1">>,
       arena |-> {Sq_from_str(<<"a", "1">>), Sq_from_str(<<"b", "1">>), Sq_from_str(<<"a", "2">>), Sq_from_str(<<"a", "8">>), Sq_from_str(<<"b", "8">>)},
       deep |-> TRUE],
      [fen |-> <<"k", "7", "/", "8", "/", "1", "K", "6", "/", "8", "/", "8", "/", "8", "/", "2", "R", "5", "/", "8", " ", "w", " ", "-", " ", "-", " ", "0", " ", "1">>,
       arena |-> {Sq_from_str(<<"c", "2">>), Sq_from_str(<<"c", "7">>), Sq_from_str(<<"c", "8">>), Sq_from_str(<<"a", "8">>), Sq_from_str(<<"b", "8">>), Sq_from_str(<<"a", "7">>), Sq_from_str(<<"b", "6">>), Sq_from_str(<<"a", "6">>)},
       deep |-> FALSE],
      [fen |-> <<"k", "7", "/", "8", "/", "1", "K", "6", "/", "8", "/", "8", "/", "8", "/", "2", "Q", "5", "/", "8", " ", "w", " ", "-", " ", "-", " ", "0", " ", "1">>,
       arena |-> {Sq_from_str(<<"c", "2">>), Sq_from_str(<<"c", "7">>), Sq_from_str(<<"c", "8">>), Sq_from_str(<<"a", "8">>), Sq_from_str(<<"b", "8">>), Sq_from_str(<<"a", "7">>), Sq_from_str(<<"b", "6">>), Sq_from_str(<<"a", "6">>)},
       deep |-> FALSE],
      [fen |-> <<"K", "7", "/", "8", "/", "1", "k", "6", "/", "8", "/", "8", "/", "8", "/", "2", "q", "5", "/", "8", " ", "b", " ", "-", " ", "-", " ", "0", " ", "1">>,
       arena |-> {Sq_from_str(<<"c", "2">>), Sq_from_str(<<"c", "7">>), Sq_from_str(<<"c", "8">>), Sq_from_str(<<"a", "8">>), Sq_from_str(<<"b", "8">>), Sq_from_str(<<"a", "7">>), Sq_from_str(<<"b", "6">>), Sq_from_str(<<"a", "6">>)},
       deep |-> FALSE],
      [fen |-> <<"8", "/", "8", "/", "8", "/", "8", "/", "8", "/", "8", "/", "8", "/", "4", "k", "2", "K", " ", "w", " ", "-", " ", "-", " ", "0", " ", "1">>,
       arena |-> {Sq_from_str(<<"h", "1">>), Sq_from_str(<<"g", "1">>), Sq_from_str(<<"h", "2">>), Sq_from_str(<<"e", "1">>), Sq_from_str(<<"d", "1">>), Sq_from_str(<<"e", "2">>)},
       deep |-> FALSE],
      [fen |-> <<"k", "7", "/", "8", "/", "8", "/", "8", "/", "8", "/", "8", "/", "8", "/", "K", "6", "R", " ", "w", " ", "-", " ", "-", " ", "9", "8", " ", "5", "0">>,
       arena |-> {Sq_from_str(<<"a", "1">>), Sq_from_str(<<"b", "1">>), Sq_from_str(<<"a", "2">>), Sq_from_str(<<"a", "8">>), Sq_from_str(<<"b", "8">>)},
       deep |-> FALSE],
      [fen |-> <<"k", "7", "/", "8", "/", "1", "K", "6", "/", "8", "/", "8", "/", "8", "/", "2", "R", "5", "/", "8", " ", "w", " ", "-", " ", "-", " ", "9", "9", " ", "6", "0">>,
       arena |-> {Sq_from_str(<<"c", "2">>), Sq_from_str(<<"c", "7">>), Sq_from_str(<<"c", "8">>), Sq_from_str(<<"a", "8">>), Sq_from_str(<<"b", "8">>), Sq_from_str(<<"a", "7">>), Sq_from_str(<<"b", "6">>), Sq_from_str(<<"a", "6">>)},
       deep |-> FALSE],
      [fen |-> <<"k", "7", "/", "8", "/", "1", "K", "6", "/", "8", "/", "8", "/", "8", "/", "2", "Q", "5", "/", "8", " ", "w", " ", "-", " ", "-", " ", "9", "9", " ", "6", "0">>,
       arena |-> {Sq_from_str(<<"c", "2">>), Sq_from_str(<<"c", "7">>), Sq_from_str(<<"c", "8">>), Sq_from_str(<<"a", "8">>), Sq_from_str(<<"b", "8">>), Sq_from_str(<<"a", "7">>), Sq_from_str(<<"b", "6">>), Sq_from_str(<<"a", "6">>)},
       deep |-> FALSE],
      [fen |-> <<"8", "/", "8", "/", "8", "/", "8", "/", "8", "/", "8", "/", "8", "/", "4", "k", "1", "N", "K", " ", "w", " ", "-", " ", "-", " ", "9", "8", " ", "6", "0">>,
       arena |-> {Sq_from_str(<<"h", "1">>), Sq_from_str(<<"h", "2">>), Sq_from_str(<<"g", "1">>), Sq_from_str(<<"f", "3">>), Sq_from_str(<<"e", "1">>), Sq_from_str(<<"d", "1">>), Sq_from_str(<<"e", "2">>)},
       deep |-> FALSE],
      [fen |-> <<"k", "7", "/", "8", "/", "8", "/", "8", "/", "1", "p", "6", "/", "8", "/", "P", "7", "/", "K", "7", " ", "w", " ", "-", " ", "-", " ", "9", "9", " ", "1">>,
       arena |-> {Sq_from_str(<<"a", "1">>), Sq_from_str(<<"b", "1">>), Sq_from_str(<<"a", "2">>), Sq_from_str(<<"a", "3">>), Sq_from_str(<<"a", "4">>), Sq_from_str(<<"b", "4">>), Sq_from_str(<<"b", "3">>), Sq_from_str(<<"a", "8">>), Sq_from_str(<<"b", "8">>)},
       deep |-> FALSE],
      [fen |-> <<"8", "/", "P", "6", "k", "/", "8", "/", "8", "/", "8", "/", "8", "/", "8", "/", "K", "7", " ", "w", " ", "-", " ", "-", " ", "0", " ", "1">>,
       arena |-> {Sq_from_str(<<"a", "7">>), Sq_from_str(<<"a", "8">>), Sq_from_str(<<"h", "7">>), Sq_from_str(<<"h", "8">>), Sq_from_str(<<"a", "1">>), Sq_from_str(<<"b", "1">>)},
       deep |-> FALSE],
      [fen |-> <<"r", "3", "k", "2", "r", "/", "8", "/", "8", "/", "8", "/", "8", "/", "8", "/", "8", "/", "R", "3", "K", "2", "R", " ", "w", " ", "K", "Q", "k", "q", " ", "-", " ", "0", " ", "1">>,
       arena |-> {Sq_from_str(<<"e", "1">>), Sq_from_str(<<"g", "1">>), Sq_from_str(<<"c", "1">>), Sq_from_str(<<"h", "1">>), Sq_from_str(<<"h", "8">>), Sq_from_str(<<"e", "8">>), Sq_from_str(<<"g", "8">>), Sq_from_str(<<"c", "8">>), Sq_from_str(<<"a", "8">>), Sq_from_str(<<"a", "1">>)},
       deep |-> FALSE],
      [fen |-> <<"8", "/", "8", "/", "8", "/", "8", "/", "8", "/", "8", "/", "6", "r", "1", "/", "4", "k", "2", "K", " ", "w", " ", "-", " ", "-", " ", "5", " ", "9">>,
       arena |-> {Sq_from_str(<<"h", "1">>), Sq_from_str(<<"g", "2">>), Sq_from_str(<<"h", "2">>), Sq_from_str(<<"g", "1">>), Sq_from_str(<<"e", "1">>), Sq_from_str(<<"d", "1">>)},
       deep |-> FALSE],
      [fen |-> <<"k", "B", "6", "/", "8", "/", "1", "K", "6", "/", "8", "/", "8", "/", "8", "/", "8", "/", "8", " ", "w", " ", "-", " ", "-", " ", "0", " ", "1">>,
       arena |-> {Sq_from_str(<<"b", "8">>), Sq_from_str(<<"a", "7">>), Sq_from_str(<<"c", "7">>), Sq_from_str(<<"b", "6">>), Sq_from_str(<<"a", "6">>), Sq_from_str(<<"a", "8">>)},
       deep |-> FALSE]>>


PlyLimit(s) == IF Scenarios[s].deep THEN MaxPlies ELSE MaxShortPlies

VARIABLES
    game,   \* the Game: start_fen, state, boards, moves, white_name, black_name
    ret,    \* what the last operation returned
    op,     \* the last operation called
    arg,    \* its argument
    scn,    \* the game being played, an index of Scenarios
    mgr     \* the GameManager, with its two engines

vars == <<game, ret, op, arg, scn, mgr>>

NoMove == Quiet(NoSq, NoSq, NoPiece, FALSE)

current_board == game.boards[Len(game.boards)]

\* The moves a caller hands to make_move: generated for the current board
\* (GameManager::play, the GUI), pseudo-legal, so some leave the king in check
Offered(b, s) ==
    {m \in generate_all(b) : m.source \in Scenarios[s].arena /\ m.target \in Scenarios[s].arena}

Init ==
    /\ scn \in 1 .. Len(Scenarios)
    /\ game = Game_from_fen("white", "black", Scenarios[scn].fen, TRUE)
    /\ ret = FALSE
    /\ op = "from_fen"
    /\ arg = NoMove
    /\ mgr = "none"

MakeMove(mv) ==
    /\ Len(game.moves) < PlyLimit(scn)
    /\ game' = make_move(game, mv).game
    /\ ret' = make_move(game, mv).ret
    /\ op' = "make_move"
    /\ arg' = mv
    /\ UNCHANGED <<scn, mgr>>

Next == \E mv \in Offered(current_board, scn) : MakeMove(mv)

Spec == Init /\ [][Next]_vars

\* ------------------------------------------------------------------------
\* Properties of the game tracker
\* ------------------------------------------------------------------------
Accepted == op = "make_move" /\ ret = TRUE

\* The history before the board just reached
prior_boards == SubSeq(game.boards, 1, Len(game.boards) - 1)

\* The boards of a history with the key and the lock of b
Matching(b, boards) ==
    {i \in 1 .. Len(boards) : boards[i].key = b.key /\ boards[i].lock = b.lock}

\* How often the position just reached has occurred in the game, itself included
Occurrences == 1 + Cardinality(Matching(current_board, prior_boards))

EarlierCheckMatches(b) ==
    b.half_moves >= 100 \/ insufficient_material(b) \/ legal_moves(b) = {}

\* The colour of the piece moved by the last call
Mover == arg.piece \div 6

KingAttacked(b, color) ==
    sq_attacked(b.piece, b.units, lsb(b.piece[PieceOf(color, LK)]), Other(color))

\* C1: after an accepted move, with no earlier check matching, the state is
\* DrawByThreefoldRepetition exactly when the position just reached has
\* occurred three times in the game, the new board included.
C1_DrawOnThirdOccurrence ==
    (Accepted /\ ~EarlierCheckMatches(current_board))
        => (game.state = DrawByThreefoldRepetition <=> Occurrences >= 3)

\* C2: set_state returns the first matching outcome of the fixed order
\* fifty-move, insufficient material, no legal moves, three matching boards
\* of the history, ongoing.
C2_FirstMatchWins ==
    Accepted =>
        LET b == current_board
            fifty == b.half_moves >= 100
            bare == insufficient_material(b)
            stuck == legal_moves(b) = {}
            thrice == Cardinality(Matching(b, prior_boards)) >= 3
        IN  /\ fifty => game.state = DrawByFiftyMoveRule
            /\ (~fifty /\ bare) => game.state = DrawByInsufficientMaterial
            /\ (~fifty /\ ~bare /\ stuck)
                 => game.state \in {LightWinByCheckmate, DarkWinByCheckmate, DrawByStalemate}
            /\ (~fifty /\ ~bare /\ ~stuck /\ thrice) => game.state = DrawByThreefoldRepetition
            /\ (~fifty /\ ~bare /\ ~stuck /\ ~thrice) => game.state = Ongoing

\* C2 witness: a checkmating move that also brings the halfmove clock to 100
C2_Witness ==
    /\ Accepted
    /\ current_board.half_moves >= 100
    /\ legal_moves(current_board) = {}
    /\ KingAttacked(current_board, current_board.side)
    /\ game.state = DrawByFiftyMoveRule

\* C4: an accepted move that leaves the side to move without a legal move,
\* neither earlier check matching, is a checkmate win for the side that
\* moved when the king of the side to move is attacked, and a stalemate
\* otherwise.
C4_CheckmateOrStalemate ==
    (/\ Accepted
     /\ current_board.half_moves < 100
     /\ ~insufficient_material(current_board)
     /\ legal_moves(current_board) = {})
        => game.state =
             IF KingAttacked(current_board, Other(Mover))
             THEN (IF Mover = Light THEN LightWinByCheckmate ELSE DarkWinByCheckmate)
             ELSE DrawByStalemate

\* C4 witness: black has just checkmated
C4_Witness == Accepted /\ Mover = Dark /\ game.state = DarkWinByCheckmate

\* C5 as stated: halfmove clock 99 with legal moves is Ongoing; halfmove
\* clock 100 after a non-pawn, non-capture move is DrawByFiftyMoveRule.
C5_FiftyMoveBoundary ==
    Accepted =>
        /\ (current_board.half_moves = 99 /\ legal_moves(current_board) # {})
             => game.state = Ongoing
        /\ (current_board.half_moves = 100 /\ arg.piece % 6 # LP /\ ~arg.capture)
             => game.state = DrawByFiftyMoveRule

\* C5 amended: at halfmove clock 99 the fifty-move rule does not apply, and
\* the position is Ongoing when legal moves exist, the material is
\* sufficient and fewer than three boards of the history match it; at 100
\* after a non-pawn, non-capture move it is DrawByFiftyMoveRule.
C5_FiftyMoveBoundaryAmended ==
    Accepted =>
        /\ current_board.half_moves = 99 => game.state # DrawByFiftyMoveRule
        /\ (/\ current_board.half_moves = 99
            /\ legal_moves(current_board) # {}
            /\ ~insufficient_material(current_board)
            /\ Cardinality(Matching(current_board, prior_boards)) < 3)
             => game.state = Ongoing
        /\ (current_board.half_moves = 100 /\ arg.piece % 6 # LP /\ ~arg.capture)
             => game.state = DrawByFiftyMoveRule

\* C5 witness: a king move has brought the clock from 99 to 100
C5_Witness ==
    /\ Accepted
    /\ Len(game.boards) >= 3
    /\ game.boards[Len(game.boards) - 1].half_moves = 99
    /\ game.boards[Len(game.boards) - 2].half_moves = 98
    /\ current_board.half_moves = 100
    /\ arg.piece % 6 = LK
    /\ game.state = DrawByFiftyMoveRule

OnlyKings(b) ==
    /\ count_ones(b.piece[LK]) = 1
    /\ count_ones(b.piece[DK]) = 1
    /\ count_ones(b.units[Both]) = 2

\* C6: a game whose current position holds only the two kings has state
\* DrawByInsufficientMaterial.
C6_BareKingsAreDrawn ==
    OnlyKings(current_board) => game.state = DrawByInsufficientMaterial

\* C7: a call of make_move that moves::make rejects returns false and
\* leaves boards, moves and state as they were; a call returns true exactly
\* when it appended the move and the board moved on.
C7_RejectedMoveChangesNothing ==
    [][op' = "make_move" =>
         LET made == make(current_board, arg')
         IN  /\ ~made.ok => (ret' = FALSE /\ game' = game)
             /\ ret' = TRUE <=> (/\ game'.moves = Append(game.moves, arg')
                                 /\ game'.boards = Append(game.boards, made.board))
             /\ ret' = FALSE => (/\ game'.moves = game.moves
                                 /\ game'.boards = game.boards
                                 /\ game'.state = game.state)]_vars

\* C7 witness: the last call was rejected, after an accepted one
C7_Witness == op = "make_move" /\ ret = FALSE /\ Len(game.moves) >= 1

\* C8: the history is a chain: a board before and after every move, each
\* board the result of the move on the board before it, the first board the
\* one parsed from start_fen.
C8_HistoryIsAChain ==
    /\ Len(game.boards) = Len(game.moves) + 1
    /\ game.boards[1] = parse(game.start_fen, TRUE).board
    /\ \A i \in 1 .. Len(game.moves) :
         /\ make(game.boards[i], game.moves[i]).ok
         /\ game.boards[i + 1] = make(game.boards[i], game.moves[i]).board

\* C8 witness: a history of three moves
C8_Witness == Accepted /\ Len(game.moves) = 3 /\ Len(game.boards) = 4

\* Whether the sequence old is the beginning of the sequence new
IsPrefix(old, new) == Len(old) <= Len(new) /\ SubSeq(new, 1, Len(old)) = old

\* C14: make_move works on a clone: every board and move of the history
\* stays as it was, an accepted move appends exactly one board and one move,
\* a rejected one appends nothing.
C14_MakeMoveOnlyAppends ==
    [][op' = "make_move" =>
         /\ IsPrefix(game.boards, game'.boards)
         /\ IsPrefix(game.moves, game'.moves)
         /\ Len(game'.boards) = Len(game.boards) + (IF ret' THEN 1 ELSE 0)
         /\ Len(game'.moves) = Len(game.moves) + (IF ret' THEN 1 ELSE 0)]_vars

\* C14 witness: a capture has been accepted and appended to the history
C14_Witness == Accepted /\ arg.capture /\ Len(game.boards) = 2 /\ Len(game.moves) = 1

\* C15: in the legality filter the working board is put back after every
\* trial, so every candidate is tried on the position passed in, the moves
\* left are exactly the candidates moves::make accepted, and the working
\* board ends equal to the position passed in.
C15_FilterRestoresBoard ==
    LET f == run_legality_filter(current_board)
        candidates == generate_all(current_board)
    IN  /\ f.board = current_board
        /\ Len(f.trials) = Cardinality(candidates)
        /\ \A i \in 1 .. Len(f.trials) : f.trials[i].board = current_board
        /\ {f.moves[i] : i \in 1 .. Len(f.moves)}
             = {m \in candidates : make(current_board, m).ok}
        /\ Len(f.moves) = Cardinality({m \in candidates : make(current_board, m).ok})

\* C15 witness: set_state has filtered a list that held legal and illegal
\* candidates, legal ones tried before illegal ones
C15_Witness ==
    LET f == run_legality_filter(current_board)
    IN  /\ Accepted
        /\ game.state = Ongoing
        /\ \E i, j \in 1 .. Len(f.trials) : i < j /\ f.trials[i].ok /\ ~f.trials[j].ok

\* ------------------------------------------------------------------------
\* The pure functions, called on inputs drawn from bounded families
\* ------------------------------------------------------------------------
MaxExtra == 2
MaxFenPieces == 3

SubsetsUpTo(S, n) == {T \in SUBSET S : Cardinality(T) <= n}

\* A board with the pieces of placed, a set of <<piece, square>> pairs
BoardOf(placed, side, castling, enpassant, half_moves, full_moves) ==
    LET piece == [p \in Pieces |-> {x[2] : x \in {y \in placed : y[1] = p}}]
        b == [Board_new EXCEPT
                !.piece = piece, !.units = update_units(piece),
                !.side = side, !.xside = Other(side),
                !.castling = castling, !.enpassant = enpassant,
                !.half_moves = half_moves, !.full_moves = full_moves]
    IN  [b EXCEPT !.key = gen_board_key(b), !.lock = gen_board_lock(b)]

Kings == {<<LK, SQ(7, 4)>>, <<DK, SQ(0, 4)>>}

\* Material: both kings and up to MaxExtra further pieces a side; the two
\* bishop squares of a side differ in colour
WhiteExtras ==
    {<<LN, SQ(7, 1)>>, <<LN, SQ(7, 6)>>, <<LB, SQ(7, 2)>>, <<LB, SQ(7, 5)>>,
     <<LR, SQ(7, 0)>>, <<LQ, SQ(7, 3)>>, <<LP, SQ(6, 0)>>}
BlackExtras ==
    {<<DN, SQ(0, 1)>>, <<DN, SQ(0, 6)>>, <<DB, SQ(0, 2)>>, <<DB, SQ(0, 5)>>,
     <<DR, SQ(0, 0)>>, <<DQ, SQ(0, 3)>>, <<DP, SQ(1, 0)>>}

MaterialBoards ==
    {BoardOf(Kings \cup ws \cup bs, Light, {}, NoSq, 0, 1) :
        ws \in SubsetsUpTo(WhiteExtras, MaxExtra), bs \in SubsetsUpTo(BlackExtras, MaxExtra)}

\* Positions to write and read back: up to MaxFenPieces of these pieces, or
\* the full start position, with every state field varied
FenCandidates ==
    {<<LK, SQ(7, 4)>>, <<DK, SQ(0, 4)>>, <<DQ, SQ(3, 3)>>,
     <<DN, SQ(3, 4)>>, <<LR, SQ(7, 7)>>, <<DB, SQ(0, 0)>>}

BackRank == <<3, 1, 2, 4, 5, 2, 1, 3>>   \* R N B Q K B N R as piece kinds
StartPlacement ==
    {<<PieceOf(Dark, BackRank[f + 1]), SQ(0, f)>> : f \in 0 .. 7}
    \cup {<<DP, SQ(1, f)>> : f \in 0 .. 7}
    \cup {<<LP, SQ(6, f)>> : f \in 0 .. 7}
    \cup {<<PieceOf(Light, BackRank[f + 1]), SQ(7, f)>> : f \in 0 .. 7}

FenPlacements == SubsetsUpTo(FenCandidates, MaxFenPieces) \cup {StartPlacement}
FenEnpassants == {NoSq, SQ(2, 4), SQ(5, 0)}
FenClocks == {<<0, 1>>, <<99, 60>>, <<100, 1234>>}

FenBoards ==
    {BoardOf(pl, side, castling, ep, clocks[1], clocks[2]) :
        pl \in FenPlacements, side \in {Light, Dark}, castling \in SUBSET (0 .. 3),
        ep \in FenEnpassants, clocks \in FenClocks}

\* Texts handed to parse, each marked malformed or not: too few fields, a
\* clock that is no number, a placement of more than 64 squares
FenTexts ==
    {[text |-> <<"k", "7", "/", "8", "/", "8", "/", "8", "/", "8", "/", "8", "/", "8", "/", "K", "6", "R", " ", "w", " ", "-", " ", "-", " ", "0", " ", "1">>,
      malformed |-> FALSE],
     [text |-> <<"r", "n", "b", "q", "k", "b", "n", "r", "/", "p", "p", "p", "p", "p", "p", "p", "p", "/", "8", "/", "8", "/", "8", "/", "8", "/", "P", "P", "P", "P", "P", "P", "P", "P", "/", "R", "N", "B", "Q", "K", "B", "N", "R", " ", "w", " ", "K", "Q", "k", "q", " ", "-", " ", "0", " ", "1">>,
      malformed |-> FALSE],
     [text |-> <<"r", "n", "b", "q", "k", "b", "1", "r", "/", "p", "p", "1", "p", "1", "p", "P", "p", "/", "8", "/", "2", "p", "1", "p", "P", "2", "/", "1", "P", "1", "P", "4", "/", "3", "P", "3", "P", "/", "P", "1", "P", "1", "P", "3", "/", "R", "N", "B", "Q", "K", "B", "N", "R", " ", "w", " ", "K", "Q", "k", "q", " ", "e", "6", " ", "0", " ", "1">>,
      malformed |-> FALSE],
     [text |-> <<"8", "/", "8", "/", "8", "/", "8", "/", "8", "/", "8", "/", "8", "/", "8", " ", "w", " ", "-", " ", "-", " ", "0", " ", "1">>,
      malformed |-> FALSE],
     [text |-> <<>>,
      malformed |-> TRUE],
     [text |-> <<"k", "7", "/", "8", "/", "8", "/", "8", "/", "8", "/", "8", "/", "8", "/", "K", "6", "R">>,
      malformed |-> TRUE],
     [text |-> <<"k", "7", "/", "8", "/", "8", "/", "8", "/", "8", "/", "8", "/", "8", "/", "K", "6", "R", " ", "w", " ", "-", " ", "-">>,
      malformed |-> TRUE],
     [text |-> <<"k", "7", "/", "8", "/", "8", "/", "8", "/", "8", "/", "8", "/", "8", "/", "K", "6", "R", " ", "w", " ", "-", " ", "-", " ", "0">>,
      malformed |-> TRUE],
     [text |-> <<"k", "7", "/", "8", "/", "8", "/", "8", "/", "8", "/", "8", "/", "8", "/", "K", "6", "R", " ", "w", " ", "-", " ", "-", " ", "x", " ", "1">>,
      malformed |-> TRUE],
     [text |-> <<"k", "7", "/", "8", "/", "8", "/", "8", "/", "8", "/", "8", "/", "8", "/", "K", "6", "R", " ", "w", " ", "-", " ", "-", " ", "0", " ", "y">>,
      malformed |-> TRUE],
     [text |-> <<"k", "7", "/", "8", "/", "8", "/", "8", "/", "8", "/", "8", "/", "8", "/", "K", "6", "R", " ", "w", " ", "-", " ", "-", " ", "-", "1", " ", "1">>,
      malformed |-> TRUE],
     [text |-> <<"k", "7", "/", "8", "/", "8", "/", "8", "/", "8", "/", "8", "/", "8", "/", "8", "/", "K", "6", "R", " ", "w", " ", "-", " ", "-", " ", "0", " ", "1">>,
      malformed |-> TRUE],
     [text |-> <<"k", "7", "/", "8", "/", "8", "/", "8", "/", "8", "/", "8", "/", "8", "/", "K", "6", "R", "1", "R", " ", "w", " ", "-", " ", "-", " ", "0", " ", "1">>,
      malformed |-> TRUE],
     [text |-> <<"9", "9", "9", "9", "9", "9", "9", "9", "9", "9", "9", "9", "9", "9", "9", "9", "9", "9", "9", "9", "9", "9", "9", "9", "9", "9", "9", "9", "9", " ", "w", " ", "-", " ", "-", " ", "0", " ", "1">>,
      malformed |-> TRUE]}

FnInputs ==
    {[fn |-> "insufficient_material", board |-> b] : b \in MaterialBoards}
    \cup {[fn |-> "round_trip", board |-> b, checks |-> c] : b \in FenBoards, c \in BOOLEAN}
    \cup {[fn |-> "parse", text |-> t.text, malformed |-> t.malformed, checks |-> c]
            : t \in FenTexts, c \in BOOLEAN}

FnInit ==
    /\ arg \in FnInputs
    /\ op = "none"
    /\ ret = FALSE
    /\ game = "none"
    /\ scn = 0
    /\ mgr = "none"

CallInsufficientMaterial ==
    /\ op = "none"
    /\ arg.fn = "insufficient_material"
    /\ ret' = insufficient_material(arg.board)
    /\ op' = "insufficient_material"
    /\ UNCHANGED <<arg, game, scn, mgr>>

CallGenFenParse ==
    /\ op = "none"
    /\ arg.fn = "round_trip"
    /\ ret' = [fen |-> gen_fen(arg.board), parsed |-> parse(gen_fen(arg.board), arg.checks)]
    /\ op' = "round_trip"
    /\ UNCHANGED <<arg, game, scn, mgr>>

CallParse ==
    /\ op = "none"
    /\ arg.fn = "parse"
    /\ ret' = parse(arg.text, arg.checks)
    /\ op' = "parse"
    /\ UNCHANGED <<arg, game, scn, mgr>>

FnNext == CallInsufficientMaterial \/ CallGenFenParse \/ CallParse

SpecFn == FnInit /\ [][FnNext]_vars

\* ------------------------------------------------------------------------
\* Properties of the pure functions
\* ------------------------------------------------------------------------
\* The squares of a colour other than its king's
Extras(b, color) == b.units[color] \ b.piece[PieceOf(color, LK)]
Minors(b, color) == b.piece[PieceOf(color, LN)] \cup b.piece[PieceOf(color, LB)]
Parity(sq) == ((sq \div 8) + (sq % 8)) % 2

LoneMinor(b, color) ==
    Cardinality(Extras(b, color)) = 1 /\ Extras(b, color) \subseteq Minors(b, color)
LoneBishop(b, color) ==
    Cardinality(Extras(b, color)) = 1 /\ Extras(b, color) \subseteq b.piece[PieceOf(color, LB)]
LoneKnight(b, color) ==
    Cardinality(Extras(b, color)) = 1 /\ Extras(b, color) \subseteq b.piece[PieceOf(color, LN)]

\* The configurations the claim lists
ListedAsDraw(b) ==
    \/ Extras(b, Light) = {} /\ Extras(b, Dark) = {}
    \/ LoneMinor(b, Light) /\ Extras(b, Dark) = {}
    \/ LoneMinor(b, Dark) /\ Extras(b, Light) = {}
    \/ /\ LoneBishop(b, Light)
       /\ LoneBishop(b, Dark)
       /\ \A w \in Extras(b, Light), d \in Extras(b, Dark) : Parity(w) = Parity(d)

\* C3 as stated: insufficient_material is true exactly for king v king, king
\* and one minor piece v king, and king and bishop v king and bishop with
\* the bishops on squares of one colour.
C3_InsufficientExactly ==
    op = "insufficient_material" => (ret <=> ListedAsDraw(arg.board))

\* C3 amended: the same, with king and knight v king and knight also true.
C3_InsufficientExactlyAmended ==
    op = "insufficient_material"
        => (ret <=> (ListedAsDraw(arg.board)
                       \/ (LoneKnight(arg.board, Light) /\ LoneKnight(arg.board, Dark))))

\* C3 witness: bishops on squares of different colours, found sufficient
C3_Witness ==
    /\ op = "insufficient_material"
    /\ LoneBishop(arg.board, Light)
    /\ LoneBishop(arg.board, Dark)
    /\ \E w \in Extras(arg.board, Light), d \in Extras(arg.board, Dark) : Parity(w) # Parity(d)
    /\ ret = FALSE

\* C9: parse(gen_fen(board)) is a board equal to the original in piece
\* placement, side to move, castling rights, en passant square, halfmove
\* clock and fullmove number.
C9_FenRoundTrip ==
    op = "round_trip" =>
        /\ ret.parsed.outcome = "board"
        /\ ret.parsed.board.piece = arg.board.piece
        /\ ret.parsed.board.side = arg.board.side
        /\ ret.parsed.board.castling = arg.board.castling
        /\ ret.parsed.board.enpassant = arg.board.enpassant
        /\ ret.parsed.board.half_moves = arg.board.half_moves
        /\ ret.parsed.board.full_moves = arg.board.full_moves

\* C9 witness: a position with pieces in mid-rank, black to move, castling
\* rights, an en passant square and a three-digit clock, read back
C9_Witness ==
    /\ op = "round_trip"
    /\ ret.parsed.outcome = "board"
    /\ arg.board.piece[DQ] # {} /\ arg.board.piece[DN] # {}
    /\ arg.board.side = Dark
    /\ arg.board.castling = {WhiteQueenside, BlackKingside}
    /\ arg.board.enpassant = SQ(2, 4)
    /\ arg.board.half_moves = 100

\* C10: parse of a malformed text fails with an error result and does not panic.
C10_MalformedFenIsAnError ==
    (op = "parse" /\ arg.malformed) => ret.outcome = "error"

\* ------------------------------------------------------------------------
\* comm.rs: reading the engine
\* ------------------------------------------------------------------------
\* The size of the buffer of one read (1024 * 64 in the program, shortened)
ReadBufLen == 48
MAX_RE_READ_COUNT == 3

\* The zero byte a read buffer is filled with
Nul == "NUL"
NoIndex == -1

\* char::is_whitespace, on the characters an engine writes
char_is_whitespace(c) == c \in {" ", "\n", "\t", "\r"}

\* EngineComm::read, Ok: the whole buffer becomes the text, the bytes read
\* followed by the zero bytes left in it
read(chunk) == chunk \o [i \in 1 .. (ReadBufLen - Len(chunk)) |-> Nul]

\* str::rfind / str::find of a pattern: the 0-based index, or NoIndex
Occurs(buf, pat) ==
    {i \in 0 .. (Len(buf) - Len(pat)) : SubSeq(buf, i + 1, i + Len(pat)) = pat}
rfind(buf, pat) ==
    IF Occurs(buf, pat) = {} THEN NoIndex
    ELSE CHOOSE i \in Occurs(buf, pat) : \A j \in Occurs(buf, pat) : j <= i

\* EngineComm::read_until_rmatch: reads are the chunks the engine's output
\* gives to the successive reads; a read with no chunk left never returns
RECURSIVE read_until_rmatch(_, _, _, _)
read_until_rmatch(reads, pat, buf, loop_count) ==
    IF loop_count > MAX_RE_READ_COUNT
    THEN [outcome |-> "none", buf |-> buf, reads |-> loop_count]
    ELSE IF loop_count + 1 > Len(reads)
    THEN [outcome |-> "blocked", buf |-> buf, reads |-> loop_count]
    ELSE LET filled == buf \o read(reads[loop_count + 1])
             found_pat == rfind(filled, pat)
         IN  IF found_pat # NoIndex
             THEN [outcome |-> "some", ind |-> found_pat, buf |-> filled,
                   reads |-> loop_count + 1]
             ELSE read_until_rmatch(reads, pat, filled, loop_count + 1)

\* str::trim, the leading side (the text ends in zero bytes, which stay)
trim_start_at(s) ==
    IF \E i \in 1 .. Len(s) : ~char_is_whitespace(s[i])
    THEN CHOOSE i \in 1 .. Len(s) :
            ~char_is_whitespace(s[i]) /\ \A j \in 1 .. (i - 1) : char_is_whitespace(s[j])
    ELSE Len(s) + 1
trim_end_at(s) ==
    IF \E i \in 1 .. Len(s) : ~char_is_whitespace(s[i])
    THEN CHOOSE i \in 1 .. Len(s) :
            ~char_is_whitespace(s[i]) /\ \A j \in (i + 1) .. Len(s) : char_is_whitespace(s[j])
    ELSE 0
trim(s) == SubSeq(s, trim_start_at(s), trim_end_at(s))

\* str::find(char::is_whitespace): the 0-based index, or NoIndex
find_whitespace(s) ==
    IF \E i \in 1 .. Len(s) : char_is_whitespace(s[i])
    THEN (CHOOSE i \in 1 .. Len(s) :
            char_is_whitespace(s[i]) /\ \A j \in 1 .. (i - 1) : ~char_is_whitespace(s[j])) - 1
    ELSE NoIndex

\* str::parse::<i32>: the value, or no value (values here stay far from the
\* ends of i32)
parse_i32(s) ==
    LET signed == Len(s) > 0 /\ s[1] \in {"+", "-"}
        body == IF signed THEN Tail(s) ELSE s
    IN  IF body = <<>> \/ (\E i \in 1 .. Len(body) : ~is_ascii_digit(body[i]))
        THEN [ok |-> FALSE, val |-> 0]
        ELSE [ok |-> TRUE,
              val |-> IF signed /\ s[1] = "-" THEN 0 - digits_value(body, 1, 0)
                      ELSE digits_value(body, 1, 0)]

\* str::split_whitespace().next(): the first word, or the empty text for None
first_word(s) ==
    LET rest == SubSeq(s, trim_start_at(s), Len(s))
        stop == find_whitespace(rest)
    IN  IF stop = NoIndex THEN rest ELSE SubSeq(rest, 1, stop)

\* best_move, the score: eval and is_mate afterwards, or a panic
best_move_score(buf, eval, is_mate) ==
    LET cp == rfind(buf, <<"c", "p">>)
        last_score == IF cp # NoIndex THEN cp ELSE rfind(buf, <<"m", "a", "t", "e">>)
        mate == IF cp # NoIndex THEN is_mate ELSE TRUE
        length == IF mate THEN 4 ELSE 2
        substr == trim(SubSeq(buf, last_score + length + 1, Len(buf)))
        space == find_whitespace(substr)
        val == parse_i32(SubSeq(substr, 1, space))
    IN  IF last_score = NoIndex THEN [panic |-> FALSE, eval |-> eval, is_mate |-> mate]
        ELSE IF last_score + length > Len(buf) \/ space = NoIndex \/ ~val.ok
        THEN [panic |-> TRUE, eval |-> eval, is_mate |-> mate]
        ELSE [panic |-> FALSE, eval |-> val.val, is_mate |-> mate]

\* best_move, the move: the first word of the five bytes after bestmove, cut
\* to its first four bytes
best_move_word(buf, ind) ==
    LET len == Len(buf) - (ind + 8)
        word_len == IF len > 5 THEN 5 ELSE len
        word == first_word(SubSeq(buf, ind + 8 + 1, ind + 8 + word_len))
    IN  IF word = <<>> THEN [outcome |-> "none"]
        ELSE IF Len(word) < 4 THEN [outcome |-> "panic"]
        ELSE [outcome |-> "some", move |-> SubSeq(word, 1, 4)]

\* EngineComm::best_move(eval, is_mate) on the chunks the engine gives
best_move(reads, eval, is_mate) ==
    LET r == read_until_rmatch(reads, <<"b", "e", "s", "t", "m", "o", "v", "e">>, <<>>, 0)
        score == best_move_score(r.buf, eval, is_mate)
    IN  IF r.outcome = "blocked" THEN [outcome |-> "blocked"]
        ELSE IF r.outcome = "none"
        THEN [outcome |-> "none", eval |-> eval, is_mate |-> is_mate]
        ELSE IF score.panic THEN [outcome |-> "panic"]
        ELSE best_move_word(r.buf, r.ind) @@ [eval |-> score.eval, is_mate |-> score.is_mate]

\* ------------------------------------------------------------------------
\* The engine's answers, read by best_move
\* ------------------------------------------------------------------------
\* What the engine writes before its bestmove line
EngineInfos ==
    {<<>>,
     <<"i", "n", "f", "o", " ", "s", "c", "o", "r", "e", " ", "c", "p", " ", "2", "3", " ", "p", "v", " ", "e", "2", "e", "4", "\n">>,
     <<"i", "n", "f", "o", " ", "s", "c", "o", "r", "e", " ", "m", "a", "t", "e", " ", "2", " ", "p", "v", " ", "b", "7", "b", "8", "q", "\n">>}

\* The moves it answers with, two of them promotions
EngineMoves ==
    {<<"e", "2", "e", "4">>,
     <<"e", "7", "e", "5">>,
     <<"e", "1", "g", "1">>,
     <<"b", "7", "b", "8", "q">>,
     <<"a", "2", "a", "1", "n">>}

\* What follows the move on its line
EngineTails ==
    {<<>>,
     <<"\n">>,
     <<" ", "p", "o", "n", "d", "e", "r", " ", "e", "7", "e", "5", "\n">>}

BestMoveLine(mv, tail) == <<"b", "e", "s", "t", "m", "o", "v", "e", " ">> \o mv \o tail

\* The output as the reads deliver it: in one piece when it fits the buffer,
\* or the bestmove line in a read of its own
Chunkings(info, line) ==
    {<<info, line>>}
    \cup (IF Len(info \o line) <= ReadBufLen THEN {<<info \o line>>} ELSE {})

CommInputs ==
    UNION {{[fn |-> "best_move", reads |-> c, move |-> mv, eval |-> 0, is_mate |-> m] :
              c \in Chunkings(info, BestMoveLine(mv, tail)), m \in BOOLEAN} :
           info \in EngineInfos, tail \in EngineTails, mv \in EngineMoves}

CommInit ==
    /\ arg \in CommInputs
    /\ op = "none"
    /\ ret = FALSE
    /\ game = "none"
    /\ scn = 0
    /\ mgr = "none"

CallBestMove ==
    /\ op = "none"
    /\ arg.fn = "best_move"
    /\ ret' = best_move(arg.reads, arg.eval, arg.is_mate)
    /\ op' = "best_move"
    /\ UNCHANGED <<arg, game, scn, mgr>>

CommNext == CallBestMove

SpecComm == CommInit /\ [][CommNext]_vars

\* C11: best_move returns the word that follows the last bestmove of the
\* engine's output, four characters or five for a promotion.
C11_BestMoveReturnsTheMove ==
    (op = "best_move" /\ ~arg.is_mate)
        => (ret.outcome = "some" /\ ret.move = arg.move)

\* ------------------------------------------------------------------------
\* The public operations of Game, called in any order
\* ------------------------------------------------------------------------
MaxApiPlies == 2

\* The games whose start positions set_start_pos is given
ApiStartPositions == {2, 4, 5}

\* Game::set_start_pos
set_start_pos(g, fen, checks) ==
    [g EXCEPT !.start_fen = fen,
              !.boards = <<Board_from_fen(fen, checks).board>>]

\* Game::lost_on_time
lost_on_time(g, is_white) ==
    [g EXCEPT !.state = IF is_white THEN LightLostOnTime ELSE DarkLostOnTime]

\* Game::move_count: the count, or the failed assertion
move_count(g) ==
    IF Len(g.moves) = Len(g.boards) - 1
    THEN [outcome |-> "count", count |-> Len(g.moves)]
    ELSE [outcome |-> "panic"]

ApiInit ==
    /\ scn \in ApiStartPositions
    /\ game = Game_from_fen("white", "black", Scenarios[scn].fen, TRUE)
    /\ ret = FALSE
    /\ op = "from_fen"
    /\ arg = NoMove
    /\ mgr = "none"

ApiMakeMove(mv) ==
    /\ Len(game.moves) < MaxApiPlies
    /\ game' = make_move(game, mv).game
    /\ ret' = make_move(game, mv).ret
    /\ op' = "make_move"
    /\ arg' = mv
    /\ UNCHANGED <<scn, mgr>>

ApiSetStartPos(s) ==
    /\ game' = set_start_pos(game, Scenarios[s].fen, TRUE)
    /\ scn' = s
    /\ op' = "set_start_pos"
    /\ arg' = NoMove
    /\ UNCHANGED <<ret, mgr>>

ApiLostOnTime(is_white) ==
    /\ game' = lost_on_time(game, is_white)
    /\ op' = "lost_on_time"
    /\ arg' = NoMove
    /\ UNCHANGED <<ret, scn, mgr>>

ApiNext ==
    \/ \E mv \in Offered(current_board, scn) : ApiMakeMove(mv)
    \/ \E s \in ApiStartPositions : ApiSetStartPos(s)
    \/ \E is_white \in BOOLEAN : ApiLostOnTime(is_white)

SpecApi == ApiInit /\ [][ApiNext]_vars

\* C13: the assertion of move_count, moves.len() == boards.len() - 1, holds
\* in every state the public operations of Game reach.
C13_MoveCountAssertionHolds == move_count(game).outcome = "count"

\* ------------------------------------------------------------------------
\* comm.rs: the search of an engine
\* ------------------------------------------------------------------------
Some(x) == [some |-> TRUE, val |-> x]
None == [some |-> FALSE]

MillisPerSecond == 1000

\* The commands written to an engine
PositionFen(fen) == [cmd |-> "position fen", fen |-> fen]
GoMovetime(time_ms) == [cmd |-> "go movetime", time_ms |-> time_ms]
StopCmd == [cmd |-> "stop"]

\* EngineComm::new, once the engine has answered uci and isready
EngineComm_new(name) == [name |-> name, search_time_left |-> None, searching |-> FALSE]

\* EngineComm::search_movetime (the command it sends is listed by its caller)
search_movetime(e, time_ms) ==
    [e EXCEPT !.search_time_left = Some(time_ms), !.searching = TRUE]

\* Duration::checked_sub
checked_sub(a, b) == IF b > a THEN None ELSE Some(a - b)

\* EngineComm::update_time_left, time_s in seconds
engine_update_time_left(e, time_s) ==
    IF e.search_time_left.some
    THEN [e EXCEPT !.search_time_left = checked_sub(@.val, time_s * MillisPerSecond)]
    ELSE e

\* search_time_over leaving the engine marked as searching
search_time_over_keeps_searching(e) ==
    [engine |-> e, result |-> ~e.search_time_left.some]

\* EngineComm::search_time_over: the engine afterwards and the answer
search_time_over(e) ==
    LET result == ~e.search_time_left.some
    IN  [engine |-> IF result THEN [e EXCEPT !.searching = FALSE] ELSE e,
         result |-> result]

\* EngineComm::stop: it writes stop to the engine
engine_stop(to) == <<[to |-> to, cmd |-> StopCmd]>>

\* ------------------------------------------------------------------------
\* game_manager.rs
\* ------------------------------------------------------------------------
FIRST == 0
SECOND == 1
SECONDS_PER_MOVE == 1

\* The start time of a clock in milliseconds (1 * 60 * 1000 in the program,
\* shortened so that a clock runs out within a few frames)
DEFAULT_START_TIME == 2000

\* x ^ 1 on an engine index
xor1(x) == 1 - x

\* Game::new: the game from FEN_POSITIONS[1]
StartFen ==
    <<"r", "n", "b", "q", "k", "b", "n", "r", "/", "p", "p", "p", "p", "p", "p", "p", "p", "/", "8", "/", "8", "/", "8", "/", "8", "/", "P", "P", "P", "P", "P", "P", "P", "P", "/", "R", "N", "B", "Q", "K", "B", "N", "R", " ", "w", " ", "K", "Q", "k", "q", " ", "-", " ", "0", " ", "1">>
Game_new(white_name, black_name) == Game_from_fen(white_name, black_name, StartFen, TRUE)

\* GameManager::new
GameManager_new(engine_a, engine_b) ==
    [engines |-> (FIRST :> engine_a) @@ (SECOND :> engine_b),
     time_left |-> (FIRST :> DEFAULT_START_TIME) @@ (SECOND :> DEFAULT_START_TIME),
     increment |-> None,
     game_history |-> <<>>,
     game |-> Game_new(engine_a.name, engine_b.name),
     white_engine |-> FIRST,
     playing |-> FALSE]

\* Game::is_ongoing, Game::is_white_to_move, Game::current_fen
is_ongoing(g) == g.state = Ongoing
Game_is_white_to_move(g) == is_white_to_move(g.boards[Len(g.boards)])
current_fen(g) == IF g.boards # <<>> THEN gen_fen(g.boards[Len(g.boards)]) ELSE g.start_fen

\* GameManager::side: the engine whose turn it is
side(m) == IF Game_is_white_to_move(m.game) THEN m.white_engine ELSE xor1(m.white_engine)

\* GameManager::time_left: the clocks of white and of black
time_left(m) == <<m.time_left[m.white_engine], m.time_left[xor1(m.white_engine)]>>

\* GameManager::update_time_left, the entry it changes
clock_index(m) == IF Game_is_white_to_move(m.game) THEN FIRST ELSE SECOND

\* GameManager::update_time_left, frame_time in seconds
update_time_left(m, frame_time) ==
    IF ~m.playing THEN m
    ELSE LET spent == m.time_left[clock_index(m)] - frame_time * MillisPerSecond
             tl == IF m.increment.some THEN spent + m.increment.val * MillisPerSecond ELSE spent
         IN  [m EXCEPT !.time_left[clock_index(m)] = IF tl <= 0 THEN 0 ELSE tl]

\* GameManager::toggle_playing
toggle_playing(m) == [m EXCEPT !.playing = ~m.playing]

\* GameManager::check_state
check_state(m) == IF ~is_ongoing(m.game) /\ m.playing THEN [m EXCEPT !.playing = FALSE] ELSE m

\* GameManager::start_new_game: fens is the list of the lines of the text;
\* with no line left the process exits
start_new_game(m, fens) ==
    LET white_engine == xor1(m.white_engine)
        new_white == m.engines[white_engine].name
        new_black == m.engines[xor1(white_engine)].name
        game_count == Len(m.game_history)
        fen == IF game_count % 2 = 0 THEN fens[game_count + 1] ELSE m.game.start_fen
    IN  IF game_count % 2 = 0 /\ game_count + 1 > Len(fens)
        THEN [exit |-> TRUE, mgr |-> [m EXCEPT !.white_engine = white_engine]]
        ELSE [exit |-> FALSE,
              mgr |-> [m EXCEPT
                         !.white_engine = white_engine,
                         !.game = Game_from_fen(new_white, new_black, fen, TRUE),
                         !.game_history = Append(@, m.game),
                         !.time_left = (FIRST :> DEFAULT_START_TIME) @@ (SECOND :> DEFAULT_START_TIME)]]

\* get_move_from_engine naming the side not to move as the loser
loser_is_white_swapped(m) == side(m) # m.white_engine

\* get_move_from_engine, the argument of lost_on_time
loser_is_white(m) == side(m) = m.white_engine

\* What a step of the manager hands back: the value returned, the commands
\* written to the engines, the calls of best_move made, and whether
\* get_move_from_engine ran
Outcome(m, value, sent, reads, entered) ==
    [mgr |-> m, value |-> value, sent |-> sent, reads |-> reads, entered |-> entered]

\* GameManager::get_move_from_engine, the loop: answers are the outputs of
\* the engine read by the successive calls of best_move
RECURSIVE get_move_loop(_, _, _, _, _)
get_move_loop(m, engine, answers, retry_count, reads) ==
    IF retry_count >= 2 THEN Outcome(m, None, <<>>, reads, TRUE)
    ELSE IF m.time_left[engine] <= 0
    THEN Outcome([m EXCEPT !.game = lost_on_time(@, loser_is_white(m))],
                 None, engine_stop(engine), reads, TRUE)
    ELSE LET answer == best_move(answers[reads + 1], 0, FALSE)
         IN  IF answer.outcome = "some"
             THEN IF answer.move = <<"a", "8", "a", "8", "P">>
                  THEN get_move_loop(m, engine, answers, retry_count + 1, reads + 1)
                  ELSE Outcome(m, Some(answer.move), <<>>, reads + 1, TRUE)
             ELSE get_move_loop(m, engine, answers, retry_count + 1, reads + 1)

\* GameManager::get_move_from_engine
get_move_from_engine(m, answers) == get_move_loop(m, side(m), answers, 0, 0)

\* comm_with_engine going on with a game that has ended
may_communicate_when_over(m) == m.playing

\* comm_with_engine, its guard
may_communicate(m) == is_ongoing(m.game) /\ m.playing

\* GameManager::comm_with_engine
comm_with_engine(m, frame_time, answers) ==
    IF ~may_communicate(m) THEN Outcome(m, None, <<>>, 0, FALSE)
    ELSE LET engine == m.engines[side(m)]
             over == search_time_over(engine)
         IN  IF ~engine.searching
             THEN Outcome([m EXCEPT !.engines[side(m)] =
                                search_movetime(engine, SECONDS_PER_MOVE * MillisPerSecond)],
                          None,
                          <<[to |-> side(m), cmd |-> PositionFen(current_fen(m.game))],
                            [to |-> side(m), cmd |-> GoMovetime(SECONDS_PER_MOVE * MillisPerSecond)]>>,
                          0, FALSE)
             ELSE IF ~over.result
             THEN Outcome([m EXCEPT !.engines[side(m)] =
                                engine_update_time_left(over.engine, frame_time)],
                          None, <<>>, 0, FALSE)
             ELSE get_move_from_engine([m EXCEPT !.engines[side(m)] = over.engine], answers)

\* str::get(a..b), 0-based, and chars().nth(n)
str_get(str, a, b) == IF b <= Len(str) THEN Some(SubSeq(str, a + 1, b)) ELSE None
chars_nth(str, n) == IF n < Len(str) THEN Some(str[n + 1]) ELSE None

\* char::to_ascii_uppercase
LowerChars == <<"a", "b", "c", "d", "e", "f", "g", "h", "i", "j", "k", "l", "m", "n", "o", "p", "q", "r", "s", "t", "u", "v", "w", "x", "y", "z">>
UpperChars == <<"A", "B", "C", "D", "E", "F", "G", "H", "I", "J", "K", "L", "M", "N", "O", "P", "Q", "R", "S", "T", "U", "V", "W", "X", "Y", "Z">>
to_ascii_uppercase(ch) ==
    IF \E i \in 1 .. Len(LowerChars) : LowerChars[i] = ch
    THEN UpperChars[CHOOSE i \in 1 .. Len(LowerChars) : LowerChars[i] = ch]
    ELSE ch

\* MoveList::search: a move of the list with this source, target and promotion
search(ml, source, target, promoted) ==
    LET hits == {mv \in ml : mv.source = source /\ mv.target = target /\ mv.promoted = promoted}
    IN  IF hits = {} THEN None ELSE Some(CHOOSE mv \in hits : TRUE)

\* GameManager::play, the move the engine's text names on the board
find_move(board, mv_str) ==
    LET source == str_get(mv_str, 0, 2)
        target == str_get(mv_str, 2, 4)
        ch == chars_nth(mv_str, 4)
        promoted == IF ch.some
                    THEN Piece_from_char(IF is_white_to_move(board)
                                         THEN to_ascii_uppercase(ch.val) ELSE ch.val)
                    ELSE NoPiece
        piece == IF source.some THEN find_piece(board, Sq_from_str(source.val)) ELSE NoPiece
    IN  IF piece # NoPiece /\ source.some /\ target.some
        THEN search(generate_by_piece(board, piece),
                    Sq_from_str(source.val), Sq_from_str(target.val), promoted)
        ELSE None

\* play handing back the move found whether or not make_move accepted it
apply_found_move_unchecked(g, found_move) ==
    IF found_move.some
    THEN [game |-> make_move(g, found_move.val).game, value |-> Some(found_move.val)]
    ELSE [game |-> g, value |-> None]

\* GameManager::play, the move found handed to make_move
apply_found_move(g, found_move) ==
    IF found_move.some
    THEN LET made == make_move(g, found_move.val)
         IN  IF made.ret THEN [game |-> made.game, value |-> Some(found_move.val)]
             ELSE [game |-> made.game, value |-> None]
    ELSE [game |-> g, value |-> None]

\* GameManager::play, what it returns and leaves behind after make_move
play_applied(c, applied) ==
    Outcome([c.mgr EXCEPT !.game = applied.game], applied.value, c.sent, c.reads, c.entered)
        @@ [mv_str |-> c.value]

\* GameManager::play once comm_with_engine has returned c: the text of the
\* move is looked up on the current board and the move found is made
play_with(c) ==
    IF c.value.some /\ c.mgr.game.boards # <<>>
    THEN play_applied(c, apply_found_move(c.mgr.game,
                             find_move(c.mgr.game.boards[Len(c.mgr.game.boards)], c.value.val)))
    ELSE Outcome(c.mgr, None, c.sent, c.reads, c.entered) @@ [mv_str |-> c.value]

\* GameManager::play; mv_str is what comm_with_engine returned
play(m, frame_time, answers) ==
    IF ~m.playing THEN Outcome(m, None, <<>>, 0, FALSE) @@ [mv_str |-> None]
    ELSE play_with(comm_with_engine(m, frame_time, answers))

\* ------------------------------------------------------------------------
\* A match run by the GameManager: two engines, the text of start positions
\* ------------------------------------------------------------------------
MaxMgrPlies == 2
MaxFrameTime == 2

\* The lines of the text of start positions given to start_new_game
MatchFens ==
    <<<<"k", "7", "/", "8", "/", "1", "K", "6", "/", "8", "/", "8", "/", "8", "/", "2", "R", "5", "/", "8", " ", "w", " ", "-", " ", "-", " ", "0", " ", "1">>>>

\* The squares the engines move on, in each start position
MatchArenas ==
    <<[fen |-> StartFen,
       arena |-> {Sq_from_str(<<"e", "2">>), Sq_from_str(<<"e", "4">>), Sq_from_str(<<"e", "7">>), Sq_from_str(<<"e", "5">>)}],
      [fen |-> MatchFens[1],
       arena |-> {Sq_from_str(<<"c", "2">>), Sq_from_str(<<"c", "7">>), Sq_from_str(<<"c", "8">>), Sq_from_str(<<"a", "8">>), Sq_from_str(<<"a", "7">>), Sq_from_str(<<"b", "8">>)}]>>
ArenaOf(fen) == (CHOOSE a \in {MatchArenas[i] : i \in 1 .. Len(MatchArenas)} : a.fen = fen).arena

\* Move::to_str: source, target and the lowercase letter of a promotion
move_to_str(mv) ==
    Sq_to_string(mv.source) \o Sq_to_string(mv.target)
        \o (IF mv.promoted = NoPiece THEN <<>>
            ELSE <<Piece_to_char(PieceOf(Dark, mv.promoted % 6))>>)

\* What an engine may write when its move is read: a pseudo-legal move of
\* the side to move, a move from an empty square, a move its piece cannot
\* make, or no bestmove at all in four reads
SilentAnswer ==
    [i \in 1 .. (MAX_RE_READ_COUNT + 1) |-> <<"i", "n", "f", "o", " ", "d", "e", "p", "t", "h", " ", "1", "\n">>]
JunkMoves == {<<"h", "5", "h", "6">>, <<"e", "2", "e", "2">>}
MoveAnswers(g) ==
    {<<BestMoveLine(str, <<"\n">>)>> :
        str \in {move_to_str(mv) :
                   mv \in {x \in generate_all(g.boards[Len(g.boards)]) :
                             x.source \in ArenaOf(g.start_fen) /\ x.target \in ArenaOf(g.start_fen)}}
                \cup JunkMoves}
AnswerPairs(g) ==
    UNION {{<<a, SilentAnswer>>, <<SilentAnswer, a>>} : a \in MoveAnswers(g) \cup {SilentAnswer}}

\* The engine's output matters to a call of play that reads it, the frame
\* time to a call that lets the search time run
WillRead(m) ==
    /\ may_communicate(m)
    /\ m.engines[side(m)].searching
    /\ ~m.engines[side(m)].search_time_left.some
    /\ m.time_left[side(m)] > 0
PlayAnswers(m) == IF WillRead(m) THEN AnswerPairs(m.game) ELSE {<<SilentAnswer, SilentAnswer>>}
WillWait(m) ==
    /\ may_communicate(m)
    /\ m.engines[side(m)].searching
    /\ m.engines[side(m)].search_time_left.some
PlayFrameTimes(m) == IF WillWait(m) THEN 1 .. MaxFrameTime ELSE {1}

Effects(o) ==
    [value |-> o.value, sent |-> o.sent, reads |-> o.reads, entered |-> o.entered,
     mv_str |-> o.mv_str]
NoEffects == [value |-> None, sent |-> <<>>, reads |-> 0, entered |-> FALSE, mv_str |-> None]

MgrInit ==
    /\ mgr = GameManager_new(EngineComm_new("first"), EngineComm_new("second"))
    /\ ret = NoEffects
    /\ op = "new"
    /\ arg = 0
    /\ game = "none"
    /\ scn = 0

MgrPlay(frame_time, answers) ==
    /\ op # "exit"
    /\ Len(mgr.game.moves) < MaxMgrPlies \/ ~is_ongoing(mgr.game)
    /\ \E played \in {play(mgr, frame_time, answers)} :
          /\ mgr' = played.mgr
          /\ ret' = Effects(played)
    /\ op' = "play"
    /\ arg' = 0
    /\ UNCHANGED <<game, scn>>

MgrUpdateTimeLeft(frame_time) ==
    /\ op # "exit"
    /\ mgr' = update_time_left(mgr, frame_time)
    /\ ret' = NoEffects
    /\ op' = "update_time_left"
    /\ arg' = 0
    /\ UNCHANGED <<game, scn>>

MgrTogglePlaying ==
    /\ op # "exit"
    /\ mgr' = toggle_playing(mgr)
    /\ ret' = NoEffects
    /\ op' = "toggle_playing"
    /\ arg' = 0
    /\ UNCHANGED <<game, scn>>

MgrCheckState ==
    /\ op # "exit"
    /\ mgr' = check_state(mgr)
    /\ ret' = NoEffects
    /\ op' = "check_state"
    /\ arg' = 0
    /\ UNCHANGED <<game, scn>>

MgrStartNewGame ==
    /\ op # "exit"
    /\ \E started \in {start_new_game(mgr, MatchFens)} :
          /\ mgr' = started.mgr
          /\ op' = IF started.exit THEN "exit" ELSE "start_new_game"
    /\ ret' = NoEffects
    /\ arg' = 0
    /\ UNCHANGED <<game, scn>>

MgrNext ==
    \/ \E frame_time \in PlayFrameTimes(mgr), answers \in PlayAnswers(mgr) :
          MgrPlay(frame_time, answers)
    \/ \E frame_time \in 1 .. MaxFrameTime : MgrUpdateTimeLeft(frame_time)
    \/ MgrTogglePlaying
    \/ MgrCheckState
    \/ MgrStartNewGame

SpecMgr == MgrInit /\ [][MgrNext]_vars

\* ------------------------------------------------------------------------
\* Properties of GameManager
\* ------------------------------------------------------------------------
CurrentBoard(m) == m.game.boards[Len(m.game.boards)]

\* C12: a call of play that was given a move string matching no generated
\* move of the piece on its source square (or naming an empty square)
\* returns None and leaves the game as it was; play returns Some(mv) exactly
\* when make_move accepted mv, and then the game has one more move, mv, and
\* one more board; otherwise boards and moves are unchanged
C12_PlayAppliesOnlyAcceptedMoves ==
    [][op' = "play" =>
          /\ (ret'.mv_str.some /\ ~find_move(CurrentBoard(mgr), ret'.mv_str.val).some)
                => (~ret'.value.some /\ mgr'.game = mgr.game)
          /\ ret'.value.some <=> mgr'.game.moves # mgr.game.moves
          /\ ret'.value.some
                => /\ mgr'.game.moves = Append(mgr.game.moves, ret'.value.val)
                   /\ Len(mgr'.game.boards) = Len(mgr.game.boards) + 1
                   /\ IsPrefix(mgr.game.boards, mgr'.game.boards)
                   /\ make(CurrentBoard(mgr), ret'.value.val).ok
          /\ ~ret'.value.some
                => /\ mgr'.game.moves = mgr.game.moves
                   /\ mgr'.game.boards = mgr.game.boards]_vars

\* play was given the text of a move that matches nothing and returned None
C12_Witness ==
    /\ op = "play"
    /\ ret.mv_str.some
    /\ ~find_move(CurrentBoard(mgr), ret.mv_str.val).some
    /\ ~ret.value.some
    /\ is_ongoing(mgr.game)

\* C16: once the current game is not ongoing, no call of play,
\* toggle_playing, check_state or update_time_left sends a command to an
\* engine or changes the game's moves, boards or state (only start_new_game
\* ends this); and after check_state, playing is false whenever the game is
\* not ongoing
C16_NothingHappensAfterGameOver ==
    [][/\ (~is_ongoing(mgr.game)
             /\ op' \in {"play", "toggle_playing", "check_state", "update_time_left"})
          => /\ ret'.sent = <<>>
             /\ ret'.reads = 0
             /\ ~ret'.value.some
             /\ mgr'.game = mgr.game
             /\ mgr'.engines = mgr.engines
       /\ (op' = "check_state" /\ ~is_ongoing(mgr'.game)) => ~mgr'.playing]_vars

\* play was called with playing set on a game that had ended
C16_Witness ==
    /\ op = "play"
    /\ mgr.playing
    /\ ~is_ongoing(mgr.game)
    /\ ~ret.value.some
    /\ ret.sent = <<>>

\* The commands that start a search of engine e on the current position
SearchCommands(m, e) ==
    <<[to |-> e, cmd |-> PositionFen(current_fen(m.game))],
      [to |-> e, cmd |-> GoMovetime(SECONDS_PER_MOVE * MillisPerSecond)]>>

\* C17: in a call of play, commands that start a search are sent only to the
\* engine to move and only when it is not searching, as "position fen" of
\* the current position immediately followed by "go movetime", and the
\* engine is searching afterwards; while its search time has not run out
\* nothing is sent or read and the search time goes down by the frame time;
\* the move is read only when the engine is searching and its search time
\* has run out; and after the read attempt the engine is not searching
C17_SearchCycleOrdering ==
    [][(op' = "play" /\ mgr.playing /\ is_ongoing(mgr.game)) =>
          LET e == side(mgr)
              before == mgr.engines[e]
              after == mgr'.engines[e]
          IN  /\ mgr'.engines[xor1(e)] = mgr.engines[xor1(e)]
              /\ ~before.searching
                    => /\ ret'.sent = SearchCommands(mgr, e)
                       /\ after.searching
                       /\ after.search_time_left = Some(SECONDS_PER_MOVE * MillisPerSecond)
                       /\ ~ret'.entered /\ ret'.reads = 0
              /\ (before.searching /\ before.search_time_left.some)
                    => /\ ret'.sent = <<>>
                       /\ ~ret'.entered /\ ret'.reads = 0
                       /\ after.searching
                       /\ after.search_time_left.some
                             => after.search_time_left.val < before.search_time_left.val
              /\ (before.searching /\ ~before.search_time_left.some)
                    => /\ ret'.entered
                       /\ ~after.searching
                       /\ \A i \in 1 .. Len(ret'.sent) : ret'.sent[i].cmd = StopCmd
              /\ (ret'.entered \/ ret'.reads > 0 \/ ret'.value.some)
                    => (before.searching /\ ~before.search_time_left.some /\ ~after.searching)]_vars

\* a move was read from an engine at the end of its search and made
C17_Witness ==
    /\ op = "play"
    /\ ret.entered
    /\ ret.reads > 0
    /\ ret.value.some
    /\ Len(mgr.game.moves) > 0
    /\ ~mgr.engines[xor1(side(mgr))].searching

\* C18: when get_move_from_engine runs in a call of play and the clock of
\* the engine to move is at or below zero, stop is sent to that engine, the
\* state of the game becomes LightLostOnTime if white is to move and
\* DarkLostOnTime if black is to move, nothing is read from the engine, no
\* move is made and play returns None
C18_LossOnTime ==
    [][(op' = "play" /\ ret'.entered /\ mgr.time_left[side(mgr)] <= 0) =>
          /\ ret'.sent = <<[to |-> side(mgr), cmd |-> StopCmd]>>
          /\ mgr'.game.state = IF Game_is_white_to_move(mgr.game)
                               THEN LightLostOnTime ELSE DarkLostOnTime
          /\ ret'.reads = 0
          /\ ~ret'.mv_str.some
          /\ ~ret'.value.some
          /\ mgr'.game.moves = mgr.game.moves
          /\ mgr'.game.boards = mgr.game.boards]_vars

\* an engine was stopped because its clock had run out
C18_Witness ==
    /\ op = "play"
    /\ ret.entered
    /\ ret.sent = <<[to |-> side(mgr), cmd |-> StopCmd]>>
    /\ mgr.time_left[side(mgr)] <= 0
    /\ mgr.game.state \in {LightLostOnTime, DarkLostOnTime}

\* C19: update_time_left, while playing, runs the clock of the engine whose
\* turn it is, the entry time_left() reports for the colour to move and
\* get_move_from_engine tests, and leaves the other engine's clock alone
C19_ClockOfTheEngineToMove ==
    [][(op' = "update_time_left" /\ mgr.playing) =>
          /\ mgr'.time_left[xor1(side(mgr))] = mgr.time_left[xor1(side(mgr))]
          /\ \/ mgr'.time_left[side(mgr)] < mgr.time_left[side(mgr)]
             \/ mgr'.time_left[side(mgr)] = 0
          /\ time_left(mgr')[IF Game_is_white_to_move(mgr.game) THEN 1 ELSE 2]
                = mgr'.time_left[side(mgr)]]_vars

\* The names of the engines that played white from start position fen in
\* the list of games played
WhitesOf(played, fen) ==
    {played[i].white_name : i \in {k \in 1 .. Len(played) : played[k].start_fen = fen}}

\* C20: a call of start_new_game gives the new game another start position
\* only after the previous start position was played with each engine as
\* white; otherwise the new game has the same start position with the
\* colours swapped
C20_EachPositionPlayedWithBothColours ==
    [][op' = "start_new_game" =>
          LET played == Append(mgr.game_history, mgr.game)
              both == {mgr.engines[FIRST].name, mgr.engines[SECOND].name}
          IN  /\ mgr'.game_history = played
              /\ mgr'.game.white_name = mgr.game.black_name
              /\ mgr'.game.black_name = mgr.game.white_name
              /\ IF WhitesOf(played, mgr.game.start_fen) = both
                 THEN mgr'.game.start_fen # mgr.game.start_fen
                 ELSE mgr'.game.start_fen = mgr.game.start_fen]_vars

\* ------------------------------------------------------------------------
\* comm.rs: EngineComm::new and the engine at the other end of the pipes
\* ------------------------------------------------------------------------
MaxEngineWrites == 3
MaxPipeLen == 20

\* str::lines: the text between line feeds; a last line with no line feed
\* counts, a carriage return before the line feed does not
line_end(s, a) ==
    IF \E e \in a .. Len(s) : s[e] = "\n"
    THEN (CHOOSE e \in a .. Len(s) : s[e] = "\n" /\ \A j \in a .. (e - 1) : s[j] # "\n") - 1
    ELSE Len(s)
strip_cr(l) == IF l # <<>> /\ l[Len(l)] = "\r" THEN SubSeq(l, 1, Len(l) - 1) ELSE l
lines(s) ==
    LET starts == {i \in 1 .. Len(s) : i = 1 \/ s[i - 1] = "\n"}
        nth(k) == CHOOSE a \in starts : Cardinality({x \in starts : x < a}) = k - 1
    IN  [k \in 1 .. Cardinality(starts) |-> strip_cr(SubSeq(s, nth(k), line_end(s, nth(k))))]

\* str::split_whitespace
word_end(s, a) ==
    CHOOSE e \in a .. Len(s) :
        /\ \A j \in a .. e : ~char_is_whitespace(s[j])
        /\ (e = Len(s) \/ char_is_whitespace(s[e + 1]))
split_whitespace(s) ==
    LET starts == {i \in 1 .. Len(s) :
                     ~char_is_whitespace(s[i]) /\ (i = 1 \/ char_is_whitespace(s[i - 1]))}
        nth(k) == CHOOSE a \in starts : Cardinality({x \in starts : x < a}) = k - 1
    IN  [k \in 1 .. Cardinality(starts) |-> SubSeq(s, nth(k), word_end(s, nth(k)))]

NoName == <<"N", "o", " ", "n", "a", "m", "e">>

\* EngineComm::uci, the body of the loop over the lines of the answer to
\* uci: the name afterwards, or the panic of word[word.len() - 2..] on a
\* word of one byte
uci_words(words, name) ==
    IF Len(words) >= 1 /\ Len(words[1]) < 2 THEN [panic |-> TRUE, name |-> name]
    ELSE IF Len(words) >= 1
            /\ SubSeq(words[1], Len(words[1]) - 1, Len(words[1])) # <<"i", "d">>
    THEN [panic |-> FALSE, name |-> name]
    ELSE IF Len(words) >= 2 /\ words[2] = <<"n", "a", "m", "e">>
    THEN [panic |-> FALSE, name |-> IF Len(words) >= 3 THEN words[3] ELSE NoName]
    ELSE [panic |-> FALSE, name |-> name]

\* EngineComm::uci, the loop over the lines
RECURSIVE uci_lines(_, _, _)
uci_lines(ls, i, named) ==
    IF i > Len(ls) \/ named.panic THEN named
    ELSE uci_lines(ls, i + 1,
                   CHOOSE r \in {uci_words(words, named.name) :
                                   words \in {split_whitespace(l) : l \in {ls[i]}}} : TRUE)

\* EngineComm::uci, the name read from the answer in buf
uci_name(buf, name) ==
    CHOOSE r \in {uci_lines(ls, 1, [panic |-> FALSE, name |-> name]) :
                    ls \in {lines(b) : b \in {buf}}} : TRUE

UciOk == <<"u", "c", "i", "o", "k">>
ReadyOk == <<"r", "e", "a", "d", "y", "o", "k">>

\* What the engine may write at any moment
EngineWrites ==
    {<<"i", "d", " ", "n", "a", "m", "e", " ", "X", "\n", "u", "c", "i", "o", "k", "\n">>,
     <<"u", "c", "i">>,
     <<"o", "k", "\n">>,
     <<"r", "e", "a", "d", "y", "o", "k", "\n">>,
     <<"x", "\n", "u", "c", "i", "o", "k", "\n">>}

\* ChildStdout::read blocks until the pipe holds bytes or the engine has
\* closed it
read_blocks(e) == e.pipe = <<>> /\ ~e.closed

\* The state before EngineComm::new: the engine started, new about to call uci
ReadInit ==
    /\ arg = [pipe |-> <<>>, closed |-> FALSE, writes |-> 0, heard |-> <<>>]
    /\ ret = [pc |-> "uci", pat |-> <<>>, buf |-> <<>>, loop_count |-> 0,
              name |-> <<>>, result |-> "none", found |-> NoIndex]
    /\ op = "new"
    /\ game = "none"
    /\ scn = 0
    /\ mgr = "none"

\* uci: send("uci"), up to the first read
SendUci ==
    /\ ret.pc = "uci"
    /\ arg' = [arg EXCEPT !.heard = Append(@, "uci")]
    /\ ret' = [ret EXCEPT !.pc = "read", !.pat = UciOk, !.buf = <<>>, !.loop_count = 0]
    /\ op' = "send_uci"
    /\ UNCHANGED <<game, scn, mgr>>

\* What follows a return of read_until_rmatch in uci and new; named is
\* what the loop over the lines gives after uciok
after_rmatch(p, e, found_pat, named) ==
    IF found_pat = NoIndex
    THEN [ret |-> [p EXCEPT !.pc = "done", !.result = "Err", !.found = NoIndex], arg |-> e]
    ELSE IF p.pat = UciOk
    THEN IF named.panic
         THEN [ret |-> [p EXCEPT !.pc = "panic", !.found = found_pat], arg |-> e]
         ELSE [ret |-> [p EXCEPT !.pc = "read", !.pat = ReadyOk, !.buf = <<>>,
                                 !.loop_count = 0, !.name = named.name,
                                 !.found = found_pat],
               arg |-> [e EXCEPT !.heard = Append(@, "isready")]]
    ELSE [ret |-> [p EXCEPT !.pc = "done", !.result = "Ok", !.found = found_pat], arg |-> e]

\* One pass of the loop of read_until_rmatch once read has returned: q is
\* the reader with the buffer filled and the loop counted, found_pat what
\* rfind gave
read_returned(q, left, found_pat) ==
    IF found_pat # NoIndex
    THEN after_rmatch(q, left, found_pat,
                      IF q.pat = UciOk THEN uci_name(q.buf, q.name)
                      ELSE [panic |-> FALSE, name |-> q.name])
    ELSE IF q.loop_count <= MAX_RE_READ_COUNT THEN [ret |-> q, arg |-> left]
    ELSE after_rmatch(q, left, NoIndex, [panic |-> FALSE, name |-> q.name])

\* One pass of the loop of read_until_rmatch: the read takes what the pipe
\* holds, as far as the buffer goes
one_read(p, e) ==
    LET n == IF Len(e.pipe) < ReadBufLen THEN Len(e.pipe) ELSE ReadBufLen
    IN  CHOOSE r \in {read_returned([p EXCEPT !.buf = filled, !.loop_count = @ + 1],
                                    [e EXCEPT !.pipe = SubSeq(@, n + 1, Len(@))],
                                    found_pat) :
                        <<filled, found_pat>> \in
                            {<<f, rfind(f, p.pat)>> : f \in {p.buf \o read(SubSeq(e.pipe, 1, n))}}} : TRUE

\* A read of read_until_rmatch that returns, and what new does until the
\* next read
ReadStep ==
    /\ ret.pc = "read"
    /\ ~read_blocks(arg)
    /\ \E r \in {one_read(ret, arg)} :
          /\ ret' = r.ret
          /\ arg' = r.arg
    /\ op' = "read"
    /\ UNCHANGED <<game, scn, mgr>>

EngineWrite(chunk) ==
    /\ ~arg.closed
    /\ arg.writes < MaxEngineWrites
    /\ Len(arg.pipe) + Len(chunk) <= MaxPipeLen
    /\ arg' = [arg EXCEPT !.pipe = @ \o chunk, !.writes = @ + 1]
    /\ op' = "engine_write"
    /\ UNCHANGED <<ret, game, scn, mgr>>

EngineClose ==
    /\ ~arg.closed
    /\ arg' = [arg EXCEPT !.closed = TRUE]
    /\ op' = "engine_close"
    /\ UNCHANGED <<ret, game, scn, mgr>>

ReadNext ==
    \/ SendUci
    \/ ReadStep
    \/ \E chunk \in EngineWrites : EngineWrite(chunk)
    \/ EngineClose

\* new runs whenever it can; the engine writes or closes if and when it likes
SpecRead == ReadInit /\ [][ReadNext]_vars /\ WF_vars(SendUci \/ ReadStep)

\* C21: EngineComm::new always comes to an end: each call of
\* read_until_rmatch returns after at most MAX_RE_READ_COUNT + 1 reads, with
\* the index of the pattern or with None, so new returns Ok or Err
C21_ReadUntilRmatchTerminates == <>(ret.pc \in {"done", "panic"})

\* ------------------------------------------------------------------------
\* game_manager.rs: get_move_from_engine and what the engine answers
\* ------------------------------------------------------------------------
Placeholder == <<"a", "8", "a", "8", "P">>

\* What an engine answers when asked for its best move: no bestmove line in
\* four reads, or a bestmove line with a move or with the placeholder, alone
\* or after an info line
AskAnswers ==
    {[reads |-> SilentAnswer, move |-> None]}
    \cup {[reads |-> <<BestMoveLine(mv, tail)>>, move |-> Some(mv)] :
            mv \in {<<"e", "2", "e", "4">>, <<"g", "1", "f", "3">>, Placeholder},
            tail \in {<<>>, <<"\n">>}}
    \cup {[reads |-> <<<<"i", "n", "f", "o", " ", "d", "e", "p", "t", "h", " ", "1", "\n">>,
                       BestMoveLine(mv, <<"\n">>)>>,
           move |-> Some(mv)] :
            mv \in {<<"e", "2", "e", "4">>, Placeholder}}

\* The manager when comm_with_engine calls get_move_from_engine: playing,
\* the game ongoing, the clock of the engine to move at clock
AskInit ==
    /\ arg \in [first : AskAnswers, second : AskAnswers, clock : {0, DEFAULT_START_TIME}]
    /\ mgr = [toggle_playing(GameManager_new(EngineComm_new("first"), EngineComm_new("second")))
                EXCEPT !.time_left[FIRST] = arg.clock]
    /\ ret = NoEffects
    /\ op = "new"
    /\ game = "none"
    /\ scn = 0

CallGetMove ==
    /\ op = "new"
    /\ \E o \in {get_move_from_engine(mgr, <<arg.first.reads, arg.second.reads>>)} :
          /\ mgr' = o.mgr
          /\ ret' = [value |-> o.value, sent |-> o.sent, reads |-> o.reads,
                     entered |-> o.entered, mv_str |-> o.value]
    /\ op' = "get_move_from_engine"
    /\ UNCHANGED <<arg, game, scn>>

AskNext == CallGetMove

SpecAsk == AskInit /\ [][AskNext]_vars

\* An attempt that failed: the engine gave no move, or gave the placeholder
FailedAttempt(answer) == ~answer.move.some \/ answer.move.val = Placeholder

\* C22: get_move_from_engine, with time left on the clock, asks the engine
\* at most twice; an answer with no move and the answer "a8a8P" are failed
\* attempts; the first other answer is returned unchanged, and None after
\* two failed attempts
C22_AtMostTwoAttempts ==
    (op = "get_move_from_engine" /\ arg.clock > 0) =>
        /\ ret.reads <= 2
        /\ ret.reads = IF FailedAttempt(arg.first) THEN 2 ELSE 1
        /\ ret.value = IF ~FailedAttempt(arg.first) THEN arg.first.move
                       ELSE IF ~FailedAttempt(arg.second) THEN arg.second.move
                       ELSE None

\* ------------------------------------------------------------------------
\* pgn.rs and Game::save
\* ------------------------------------------------------------------------
MaxSavePlies == 2
MaxFailAt == 12

\* pgn::save, the result tag
result_str(state) ==
    IF state = Ongoing THEN <<"*">>
    ELSE IF state = LightWinByCheckmate THEN <<"1", "-", "0">>
    ELSE IF state = DarkWinByCheckmate THEN <<"0", "-", "1">>
    ELSE <<"1", "/", "2", "-", "1", "/", "2">>

\* pgn::save, the writes of the loop over the moves from move i on: the
\* number before a move of white, the move with its check mark (its text is
\* made by coord_move_to_san), and a line feed or a space before the next
RECURSIVE move_writes(_, _, _)
move_writes(g, i, count) ==
    IF i >= count \/ Len(g.moves) < i THEN <<>>
    ELSE (IF i % 2 = 0 THEN <<[number |-> (i \div 2) + 1]>> ELSE <<>>)
         \o <<[san |-> g.moves[i + 1],
               check |-> is_in_check(g.boards[i + 2], g.boards[i + 2].xside)]>>
         \o (IF i < count - 1
             THEN <<[sep |-> IF i # 0 /\ i % 10 = 0 THEN "\n" ELSE " "]>>
             ELSE <<>>)
         \o move_writes(g, i + 1, count)

\* pgn::save, the writes it makes in their order
pgn_writes(g) ==
    <<[tag |-> "Event", value |-> "?"],
      [tag |-> "Site", value |-> "?"],
      [tag |-> "Date", value |-> "????.??.??"],
      [tag |-> "Round", value |-> "?"],
      [tag |-> "White", value |-> g.white_name],
      [tag |-> "Black", value |-> g.black_name],
      [tag |-> "Result", value |-> result_str(g.state)]>>
    \o (IF g.start_fen # StartFen
        THEN <<[tag |-> "FEN", value |-> g.start_fen], [tag |-> "SetUp", value |-> "1"]>>
        ELSE <<>>)
    \o <<[sep |-> "\n"]>>
    \o move_writes(g, 0, Len(g.moves))
    \o <<[result |-> result_str(g.state)]>>

\* pgn::save: fs says whether the file can be created and which write, if
\* any, returns an error; the file holds the writes made before it
pgn_save(filename, g, fs) ==
    IF ~fs.create_ok THEN [result |-> "Err", file |-> None]
    ELSE IF move_count(g).outcome = "panic" THEN [result |-> "panic", file |-> Some(<<>>)]
    ELSE IF fs.fail_at \in 1 .. Len(pgn_writes(g))
    THEN [result |-> "Err", file |-> Some(SubSeq(pgn_writes(g), 1, fs.fail_at - 1))]
    ELSE [result |-> "Ok", file |-> Some(pgn_writes(g))]

\* Game::save: what it returns, whether it reports the error, and the file
save(g, filename, fs) ==
    LET name == IF ~filename.some THEN <<g.white_name, "_vs_", g.black_name, ".pgn">>
                ELSE filename.val
        saved == pgn_save(name, g, fs)
        is_saved == saved.result = "Err"
    IN  [panic |-> saved.result = "panic", is_saved |-> is_saved, reported |-> ~is_saved,
         name |-> name, pgn |-> saved.result, file |-> saved.file]

SaveInit ==
    /\ game \in {Game_new("first", "second"),
                 Game_from_fen("second", "first", MatchFens[1], TRUE)}
    /\ ret = FALSE
    /\ op = "new"
    /\ arg = 0
    /\ scn = 0
    /\ mgr = "none"

SaveMakeMove(mv) ==
    /\ Len(game.moves) < MaxSavePlies
    /\ \E made \in {make_move(game, mv)} :
          /\ game' = made.game
          /\ ret' = made.ret
    /\ op' = "make_move"
    /\ arg' = 0
    /\ UNCHANGED <<scn, mgr>>

CallSave(filename, fs) ==
    /\ \E saved \in {save(game, filename, fs)} : ret' = saved
    /\ op' = "save"
    /\ arg' = fs
    /\ UNCHANGED <<game, scn, mgr>>

SaveNext ==
    \/ \E mv \in {x \in generate_all(current_board) :
                    x.source \in ArenaOf(game.start_fen) /\ x.target \in ArenaOf(game.start_fen)} :
          SaveMakeMove(mv)
    \/ \E filename \in {None, Some(<<"game.pgn">>)},
          fs \in [create_ok : BOOLEAN, fail_at : 0 .. MaxFailAt] :
          CallSave(filename, fs)

SpecSave == SaveInit /\ [][SaveNext]_vars

\* C23: Game::save returns true exactly when pgn::save returned Ok, and
\* reports that the game could not be saved, returning false, exactly when
\* pgn::save returned an error
C23_SaveReturnsTrueWhenWritten ==
    (op = "save" /\ ~ret.panic) =>
        /\ ret.is_saved <=> ret.pgn = "Ok"
        /\ ret.reported <=> ret.pgn = "Err"
        /\ ret.reported <=> ~ret.is_saved

====
